---- MODULE Spec2Model ----
(***************************************************************************)
(* A model of the AI_Scraper pipeline: main.py's orchestration (main,      *)
(* init_all_sites, init_site, scrape_all_fp, scrape_fp, select,            *)
(* get_listings, get_snapshots), database.py's store operations,           *)
(* match.py / normalize.py's snapshot matching and scrape_ai.py's          *)
(* selector sanitizing.                                                    *)
(*                                                                         *)
(* Python values.  An Optional value is a set: None is {} and a value v    *)
(* is {v}.  A str is a sequence of one-character strings.  A dict is a     *)
(* function whose DOMAIN is its key set.  A raised exception is the        *)
(* "exc" field of an operation's result.                                   *)
(***************************************************************************)
EXTENDS Integers, Sequences, FiniteSets, TLC

VARIABLES
    store,      \* the MySQL database: site, property, listing, listing_snapshot
    mainpc,     \* main()'s position
    run,        \* number of the current run of main()
    permits,    \* free permits of main()'s asyncio.Semaphore
    tasks,      \* the tasks of the current asyncio.gather
    hist,       \* the selector each select() call so far returned, per run and scope
    last,       \* what the last step did, as far as it is observed
    observe,    \* whether hist and last are recorded
    envs,       \* which answers of the pages and the extractor the runs draw from
    mIn,        \* input of the pure function under check
    mOut        \* its result

vars == <<store, mainpc, run, permits, tasks, hist, last, observe, envs, mIn, mOut>>

\* ------------------------------------------------------------------ values

None == {}
Some(x) == {x}
IsNone(v) == v = {}
Val(v) == CHOOSE x \in v : TRUE

\* Python's {**a, **b}: the keys of both, b's value where b has the key.
DictMerge(a, b) ==
    [k \in (DOMAIN a) \cup (DOMAIN b) |-> IF k \in DOMAIN b THEN b[k] ELSE a[k]]

EmptyDict == [k \in {} |-> None]

\* ------------------------------------------------------------------ bounds

GateSize == 5
MaxRuns == 2
MaxCount == 2

\* ------------------------------------------------------------------ normalize.py

Digits == <<"0", "1", "2", "3", "4", "5", "6", "7", "8", "9">>
IsDigit(c) == \E i \in 1..10 : Digits[i] = c
DigitVal(c) == (CHOOSE i \in 1..10 : Digits[i] = c) - 1

\* str.replace(c, ""): the string without its occurrences of c.
RECURSIVE Remove(_, _)
Remove(s, c) ==
    IF s = <<>> THEN <<>>
    ELSE IF Head(s) = c THEN Remove(Tail(s), c)
    ELSE <<Head(s)>> \o Remove(Tail(s), c)

RECURSIVE DigitsValue(_)
DigitsValue(s) ==
    IF s = <<>> THEN 0 ELSE 10 * DigitsValue(SubSeq(s, 1, Len(s) - 1)) + DigitVal(s[Len(s)])

AllDigits(s) == \A i \in 1..Len(s) : IsDigit(s[i])

\* The position of the first "." of s, or 0.
DotAt(s) == IF \E i \in 1..Len(s) : s[i] = "."
            THEN CHOOSE i \in 1..Len(s) : s[i] = "." /\ \A j \in 1..(i - 1) : s[j] # "."
            ELSE 0

\* What float() accepts among the strings of digits and dots: digits with at
\* most one ".", and at least one digit.
FloatParses(s) ==
    LET d == DotAt(s) IN
    IF d = 0 THEN s # <<>> /\ AllDigits(s)
    ELSE /\ AllDigits(SubSeq(s, 1, d - 1))
         /\ AllDigits(SubSeq(s, d + 1, Len(s)))
         /\ Len(s) > 1

\* int(float(s)): the integer part.
IntOfFloat(s) ==
    LET d == DotAt(s) IN IF d = 0 THEN DigitsValue(s) ELSE DigitsValue(SubSeq(s, 1, d - 1))

PriceDigits(price) == Remove(Remove(price, ","), "$")

\* Normalizer.normalize_price: [exc, val]; int(float(...)) raises ValueError on
\* a string that is no number.
normalize_price(price) ==
    LET p == PriceDigits(price) IN
    IF FloatParses(p) THEN [exc |-> None, val |-> IntOfFloat(p)]
    ELSE [exc |-> Some("ValueError"), val |-> 0]

\* Normalizer.normalize_price_range on Optional strings: [exc, val], val the
\* boolean returned.
\* The tests are written on l and h, the two normalized prices ([exc, val],
\* val unused for a None price).
price_range_of(low, high, l, h) ==
    IF ~IsNone(l.exc) THEN [exc |-> l.exc, val |-> FALSE]
    ELSE IF ~IsNone(h.exc) THEN [exc |-> h.exc, val |-> FALSE]
    ELSE IF ~IsNone(low)
         THEN IF ~IsNone(high)
              THEN IF h.val < l.val THEN [exc |-> None, val |-> FALSE]
                   ELSE [exc |-> None, val |-> TRUE]
              ELSE [exc |-> None, val |-> TRUE]
         ELSE [exc |-> None, val |-> FALSE]

normalized(price) ==
    IF IsNone(price) THEN [exc |-> None, val |-> 0] ELSE normalize_price(Val(price))

normalize_price_range(low, high) ==
    price_range_of(low, high, normalized(low), normalized(high))

\* ------------------------------------------------------------------ database.py

\* A Python value handed to the store layer: a dict (key access only) or an
\* object with attributes (a pydantic model).  Reading an attribute of a dict
\* raises AttributeError.
PyDict(d) == [kind |-> "dict", d |-> d]
PyObj(d) == [kind |-> "obj", d |-> d]
HasAttr(v, a) == v.kind = "obj" /\ a \in DOMAIN v.d

\* A JSON array as json.loads returns it: a Python list, not a mapping.
PyList(items) == [kind |-> "list", items |-> items]
IsList(v) == DOMAIN v = {"kind", "items"}

Ok(st) == [exc |-> None, store |-> st]
Raise(e, st) == [exc |-> Some(e), store |-> st]

\* The UNIQUE key of table listing that INSERT IGNORE relies on: one row per
\* (site_id, property_id, listname), a NULL property_id being the site's scope.
ListingKeyExists(rows, site_id, property_id, listname) ==
    \E i \in 1..Len(rows) :
        /\ rows[i].site_id = site_id
        /\ rows[i].property_id = property_id
        /\ rows[i].listname = listname

\* executemany of a plain INSERT: every row is added.
InsertAllListings(rows, data) == rows \o data

\* cursor.executemany of INSERT IGNORE INTO listing: row by row, a row whose
\* key exists is skipped.
RECURSIVE InsertIgnoreListings(_, _)
InsertIgnoreListings(rows, data) ==
    IF data = <<>> THEN rows
    ELSE LET r == Head(data) IN
         InsertIgnoreListings(
             IF ListingKeyExists(rows, r.site_id, r.property_id, r.listname)
             THEN rows ELSE Append(rows, r),
             Tail(data))

ListingAttrs == {"listname", "bedrooms", "bathrooms", "sqft", "shared_room", "amenities"}

\* Database.insert_listings(site_id, property_id, listings)
insert_listings(st, site_id, property_id, listings) ==
    IF \E i \in 1..Len(listings) : \E a \in ListingAttrs : ~HasAttr(listings[i], a)
    THEN Raise("AttributeError", st)
    ELSE LET data == [i \in 1..Len(listings) |->
                        [site_id |-> site_id, property_id |-> property_id,
                         listname |-> listings[i].d.listname,
                         bedrooms |-> listings[i].d.bedrooms,
                         bathrooms |-> listings[i].d.bathrooms,
                         sqft |-> listings[i].d.sqft,
                         shared_room |-> IF IsNone(listings[i].d.shared_room) THEN None
                                         ELSE IF Val(listings[i].d.shared_room)
                                              THEN Some(1) ELSE Some(0),
                         amenities |-> listings[i].d.amenities]]
         IN Ok([st EXCEPT !.listing = InsertIgnoreListings(@, data)])

\* A lookup by site and listname that ignores the property.
lookup_listing_id_any_scope(st, site_id, property_id, listname) ==
    LET hit == {i \in 1..Len(st.listing) :
                    /\ st.listing[i].site_id = site_id
                    /\ st.listing[i].listname = listname}
    IN IF hit = {} THEN None
       ELSE Some(CHOOSE i \in hit : \A j \in hit : i <= j)

\* Database.lookup_listing_id: the id (row number) of the first matching row.
lookup_listing_id(st, site_id, property_id, listname) ==
    LET hit == {i \in 1..Len(st.listing) :
                    /\ st.listing[i].site_id = site_id
                    /\ st.listing[i].property_id = property_id
                    /\ st.listing[i].listname = listname}
    IN IF hit = {} THEN None
       ELSE Some(CHOOSE i \in hit : \A j \in hit : i <= j)

\* The rows insert_listing_snapshots builds: one per snapshot whose listname
\* resolves, in order.
RECURSIVE SnapshotData(_, _, _, _)
SnapshotData(st, site_id, property_id, snaps) ==
    IF snaps = <<>> THEN <<>>
    ELSE LET s == Head(snaps)
             id == lookup_listing_id(st, site_id, property_id, s.d.listname)
             rest == SnapshotData(st, site_id, property_id, Tail(snaps))
         IN IF IsNone(id) THEN rest
            ELSE <<[listing_id |-> Val(id), availability |-> s.d.availability,
                    price |-> normalize_price(s.d.price).val,
                    pre_deal_price |-> s.d.pre_deal_price,
                    deals |-> s.d.deals]>> \o rest

\* The exception, if any, that building the row of snapshot s raises.
SnapshotRowExc(st, site_id, property_id, s) ==
    IF ~HasAttr(s, "listname") THEN Some("AttributeError")
    ELSE IF IsNone(lookup_listing_id(st, site_id, property_id, s.d.listname)) THEN None
    ELSE IF ~HasAttr(s, "availability") \/ ~HasAttr(s, "price") THEN Some("AttributeError")
    ELSE IF ~IsNone(normalize_price(s.d.price).exc) THEN normalize_price(s.d.price).exc
    ELSE IF ~HasAttr(s, "pre_deal_price") \/ ~HasAttr(s, "deals") THEN Some("AttributeError")
    ELSE None

\* An insert that keeps only the latest snapshot row of a listing.
insert_listing_snapshots_latest(st, site_id, property_id, snaps) ==
    LET new == SnapshotData(st, site_id, property_id, snaps)
    IN Ok([st EXCEPT !.snapshot =
              SelectSeq(@, LAMBDA r : \A k \in DOMAIN new : new[k].listing_id # r.listing_id)
              \o new])

\* Database.insert_listing_snapshots(site_id, property_id, snaps): the rows are
\* built first, so an exception leaves the table as it was.
insert_listing_snapshots(st, site_id, property_id, snaps) ==
    LET bad == {i \in 1..Len(snaps) :
                   ~IsNone(SnapshotRowExc(st, site_id, property_id, snaps[i]))}
    IN IF bad # {}
       THEN Raise(Val(SnapshotRowExc(st, site_id, property_id,
                        snaps[CHOOSE i \in bad : \A j \in bad : i <= j])), st)
       ELSE Ok([st EXCEPT !.snapshot = @ \o SnapshotData(st, site_id, property_id, snaps)])

\* Database.insert_properties(site_id, site)
insert_properties(st, site_id, site) ==
    [st EXCEPT !.property = @ \o
        [k \in 1..Len(site.d.properties) |->
            [site_id |-> site_id,
             floorplans_url |-> site.d.properties[k].floorplans_url,
             title |-> site.d.properties[k].title,
             container_selector |-> None,
             listing_count |-> None]]]

SiteAttrs == {"floorplans_url", "address", "properties"}

\* Database.insert_site(site_id, site): site.floorplans_url is its first read.
insert_site(st, site_id, site) ==
    IF \E a \in SiteAttrs : ~HasAttr(site, a) THEN Raise("AttributeError", st)
    ELSE LET s1 == IF ~IsNone(site.d.floorplans_url)
                   THEN [st EXCEPT !.site[site_id].floorplans_url = site.d.floorplans_url]
                   ELSE st
             s2 == IF ~IsNone(site.d.address)
                   THEN [s1 EXCEPT !.site[site_id].address = site.d.address]
                   ELSE s1
         IN Ok(IF site.d.properties # <<>> THEN insert_properties(s2, site_id, site) ELSE s2)

\* A save that writes the site's row whatever the scope.
save_selector_site_row(st, selector, site_id, property_id) ==
    [st EXCEPT !.site = [i \in DOMAIN @ |->
        IF i = site_id THEN [@[i] EXCEPT !.container_selector = Some(selector)]
        ELSE @[i]]]

\* Database.save_selector(selector, site_id, property_id)
save_selector(st, selector, site_id, property_id) ==
    IF IsNone(property_id)
    THEN [st EXCEPT !.site = [i \in DOMAIN @ |->
              IF i = site_id THEN [@[i] EXCEPT !.container_selector = Some(selector)]
              ELSE @[i]]]
    ELSE [st EXCEPT !.property = [i \in DOMAIN @ |->
              IF i = Val(property_id) THEN [@[i] EXCEPT !.container_selector = Some(selector)]
              ELSE @[i]]]

\* An update that writes the number of Listing rows of the scope.
update_listing_count_rows(st, site_id, property_id, count) ==
    LET n == Cardinality({k \in DOMAIN st.listing :
                             /\ st.listing[k].site_id = site_id
                             /\ st.listing[k].property_id = property_id})
    IN IF IsNone(property_id)
       THEN [st EXCEPT !.site = [i \in DOMAIN @ |->
                 IF i = site_id THEN [@[i] EXCEPT !.listing_count = Some(n)] ELSE @[i]]]
       ELSE [st EXCEPT !.property = [i \in DOMAIN @ |->
                 IF i = Val(property_id) THEN [@[i] EXCEPT !.listing_count = Some(n)]
                 ELSE @[i]]]

\* Database.update_listing_count(site_id, property_id, count)
update_listing_count(st, site_id, property_id, count) ==
    IF IsNone(property_id)
    THEN [st EXCEPT !.site = [i \in DOMAIN @ |->
              IF i = site_id THEN [@[i] EXCEPT !.listing_count = Some(count)] ELSE @[i]]]
    ELSE [st EXCEPT !.property = [i \in DOMAIN @ |->
              IF i = Val(property_id) THEN [@[i] EXCEPT !.listing_count = Some(count)]
              ELSE @[i]]]

\* get_selector reading the site's row whatever the scope.
get_selector_site_only(st, site_id, property_id) ==
    IF site_id \in DOMAIN st.site THEN st.site[site_id].container_selector ELSE None

\* Database.get_selector: the row's container_selector, None without a row.
get_selector(st, site_id, property_id) ==
    IF IsNone(property_id)
    THEN IF site_id \in DOMAIN st.site THEN st.site[site_id].container_selector ELSE None
    ELSE IF Val(property_id) \in DOMAIN st.property
         THEN st.property[Val(property_id)].container_selector ELSE None

\* Database.get_listing_count
get_listing_count(st, site_id, property_id) ==
    IF IsNone(property_id)
    THEN IF site_id \in DOMAIN st.site THEN st.site[site_id].listing_count ELSE None
    ELSE IF Val(property_id) \in DOMAIN st.property
         THEN st.property[Val(property_id)].listing_count ELSE None

\* Database.previously_visited
\* A test of the site's own URL alone.
visited_by_url_only(st, site_id) == ~IsNone(st.site[site_id].floorplans_url)

previously_visited(st, site_id) ==
    ~(/\ ~\E p \in DOMAIN st.property : st.property[p].site_id = site_id
      /\ IsNone(st.site[site_id].floorplans_url))

\* if site["floorplans_url"]: neither NULL nor the empty string
HasUrl(site) == ~IsNone(site.floorplans_url) /\ Val(site.floorplans_url) # ""

\* get_floorplan_urls without the `continue` of the site-level branch.
RECURSIVE FloorplansFrom_no_continue(_, _)
FloorplansFrom_no_continue(st, site_id) ==
    IF site_id > Len(st.site) THEN <<>>
    ELSE LET site == st.site[site_id]
             props == SelectSeq([p \in DOMAIN st.property |-> p],
                          LAMBDA p : /\ st.property[p].site_id = site_id
                                     /\ ~IsNone(st.property[p].floorplans_url))
         IN (IF HasUrl(site)
             THEN <<[site_id |-> site_id, property_id |-> None,
                     url |-> Val(site.floorplans_url)]>>
             ELSE <<>>)
            \o [k \in 1..Len(props) |->
                  [site_id |-> site_id, property_id |-> Some(props[k]),
                   url |-> Val(st.property[props[k]].floorplans_url)]]
            \o FloorplansFrom_no_continue(st, site_id + 1)

\* Database.get_floorplan_urls: FloorplanURL(site_id, url, property_id) per site
\* with a floorplans_url, else per property row of the site with a URL.
RECURSIVE FloorplansFrom(_, _)
FloorplansFrom(st, site_id) ==
    IF site_id > Len(st.site) THEN <<>>
    ELSE LET site == st.site[site_id]
             props == SelectSeq([p \in DOMAIN st.property |-> p],
                          LAMBDA p : /\ st.property[p].site_id = site_id
                                     /\ ~IsNone(st.property[p].floorplans_url))
             mine == IF HasUrl(site)
                     THEN <<[site_id |-> site_id, property_id |-> None,
                             url |-> Val(site.floorplans_url)]>>
                     ELSE [k \in 1..Len(props) |->
                             [site_id |-> site_id, property_id |-> Some(props[k]),
                              url |-> Val(st.property[props[k]].floorplans_url)]]
         IN mine \o FloorplansFrom(st, site_id + 1)

get_floorplan_urls(st) == FloorplansFrom(st, 1)

\* ------------------------------------------------------------------ scrape_ai.py

Letters == {"a", "b", "c", "d", "e", "f", "g", "h", "i", "j", "k", "l", "m",
            "n", "o", "p", "q", "r", "s", "t", "u", "v", "w", "x", "y", "z",
            "A", "B", "C", "D", "E", "F", "G", "H", "I", "J", "K", "L", "M",
            "N", "O", "P", "Q", "R", "S", "T", "U", "V", "W", "X", "Y", "Z"}
IsLetter(c) == c \in Letters
Whitespace == {" ", "\t", "\n", "\r"}

\* str.strip()
RECURSIVE LStrip(_)
LStrip(s) == IF s # <<>> /\ Head(s) \in Whitespace THEN LStrip(Tail(s)) ELSE s
RECURSIVE RStrip(_)
RStrip(s) == IF s # <<>> /\ s[Len(s)] \in Whitespace
             THEN RStrip(SubSeq(s, 1, Len(s) - 1)) ELSE s
Strip(s) == RStrip(LStrip(s))

\* The length of the longest run of letters of s from position i on.
RECURSIVE LetterRun(_, _)
LetterRun(s, i) == IF i <= Len(s) /\ IsLetter(s[i]) THEN 1 + LetterRun(s, i + 1) ELSE 0

\* re.sub(r"^\.([a-zA-Z]+)([.#])", r"\1\2", sel): [a-zA-Z]+ is greedy and cannot
\* give back a letter to match [.#], so the run of letters must be followed by
\* "." or "#".
SubDotElement(sel) ==
    LET n == IF sel # <<>> /\ Head(sel) = "." THEN LetterRun(sel, 2) ELSE 0 IN
    IF n >= 1 /\ n + 2 <= Len(sel) /\ sel[n + 2] \in {".", "#"} THEN Tail(sel) ELSE sel

\* re.sub(r"^\.([a-zA-Z][a-zA-Z0-9_-]*)", r"\1", sel): a leading "." followed
\* by a letter is removed.
SubDotName(sel) ==
    IF Len(sel) >= 2 /\ Head(sel) = "." /\ IsLetter(sel[2]) THEN Tail(sel) ELSE sel

\* str.replace('"', "'")
ReplaceQuotes(sel) == [i \in 1..Len(sel) |-> IF sel[i] = "\"" THEN "'" ELSE sel[i]]

\* sanitize_selector
sanitize_selector(selector) == ReplaceQuotes(SubDotName(SubDotElement(Strip(selector))))

\* The fields ai_parse_listings removes from its request: those of filled
\* whose value is not None.
ListingProps == {"listname", "bedrooms", "bathrooms", "sqft"}
SnapshotProps == {"listname", "availability", "price_low", "price_high", "pre_deal_price"}
\* A request that leaves no field out.
Requested_all(all, filled) == all

Requested(all, filled) == all \ {k \in DOMAIN filled : ~IsNone(filled[k])}

\* listing = ai_listing.get("properties", {}): an answer that wraps its fields
\* in a non-empty "properties" object is unwrapped, any other is returned as
\* it came, whatever keys it holds.
Unwrapped(answer) ==
    IF "properties" \in DOMAIN answer /\ answer["properties"] # EmptyDict
    THEN answer["properties"] ELSE answer

\* ai_parse_listings(container, filled), the service's answer being response:
\* [exc, val], val the decoded JSON object.  A failed call or an undecodable
\* payload raises.  asked is the set of fields of the schema sent to the
\* service, empty when no call is made.
ai_parse_listings(filled, response) ==
    IF Requested(ListingProps, filled) = {}
    THEN [exc |-> None, val |-> EmptyDict, asked |-> {}]
    ELSE IF ~IsNone(response.exc)
    THEN [exc |-> response.exc, val |-> EmptyDict, asked |-> Requested(ListingProps, filled)]
    ELSE [exc |-> None, val |-> Unwrapped(response.val),
          asked |-> Requested(ListingProps, filled)]

\* ai_parse_listing_snapshots(container, filled)
ai_parse_listing_snapshots(filled, response) ==
    IF Requested(SnapshotProps, filled) = {}
    THEN [exc |-> None, val |-> EmptyDict, asked |-> {}]
    ELSE IF ~IsNone(response.exc)
    THEN [exc |-> response.exc, val |-> EmptyDict, asked |-> Requested(SnapshotProps, filled)]
    ELSE [exc |-> None, val |-> Unwrapped(response.val),
          asked |-> Requested(SnapshotProps, filled)]

\* ------------------------------------------------------------------ match.py

\* Match.match_snapshot from its two regex searches on: price is the price
\* pattern's groups (None without a match, else <<low, high>> with high None
\* when the second group did not take part), availability the other group.
\* The snapshot built from the groups and r, the answer of
\* normalize_price_range on them.
snapshot_of(low, high, availability, r) ==
    IF ~IsNone(r.exc) THEN [exc |-> r.exc, val |-> EmptyDict]
    ELSE [exc |-> None,
          val |-> [price_low |-> IF r.val THEN low ELSE None,
                   price_high |-> IF r.val THEN high ELSE None,
                   availability |-> availability]]

price_groups(low, high, availability) ==
    snapshot_of(low, high, availability, normalize_price_range(low, high))

match_snapshot(price, availability) ==
    price_groups(IF IsNone(price) THEN None ELSE Some(Val(price)[1]),
                 IF IsNone(price) THEN None ELSE Val(price)[2],
                 availability)

\* ------------------------------------------------------------------ main.py

WindowLow == 1
WindowHigh == 50

\* The loop with the window's lower end included (1 <= n).
RECURSIVE TestFrom_low_inclusive(_, _, _)
TestFrom_low_inclusive(candidates, outcomes, i) ==
    IF i > Len(candidates) THEN [chosen |-> None, tested |-> Len(candidates)]
    ELSE IF ~IsNone(outcomes[i]) /\ WindowLow <= Val(outcomes[i])
                                 /\ Val(outcomes[i]) <= WindowHigh
         THEN [chosen |-> Some(sanitize_selector(candidates[i])), tested |-> i]
         ELSE TestFrom_low_inclusive(candidates, outcomes, i + 1)

\* select's loop over the candidates: outcomes[i] is None when
\* wait_for_selector raised for candidate i, else the number of elements
\* found.  [chosen, tested]: the sanitized candidate chosen (None if none) and
\* how many candidates were tried.
RECURSIVE TestFrom(_, _, _)
TestFrom(candidates, outcomes, i) ==
    IF i > Len(candidates) THEN [chosen |-> None, tested |-> Len(candidates)]
    ELSE LET cand == sanitize_selector(candidates[i]) IN
         IF ~IsNone(outcomes[i]) /\ WindowLow < Val(outcomes[i])
                                 /\ Val(outcomes[i]) <= WindowHigh
         THEN [chosen |-> Some(cand), tested |-> i]
         ELSE TestFrom(candidates, outcomes, i + 1)

TestCandidates(candidates, outcomes) == TestFrom(candidates, outcomes, 1)

\* listing = {**regex_listing, **ai_listing}
merge_listing(regex_listing, ai_listing) == DictMerge(regex_listing, ai_listing)

\* listing_snapshot = {**regex_snapshot, **ai_snapshot}
merge_snapshot(regex_snapshot, ai_snapshot) == DictMerge(regex_snapshot, ai_snapshot)

\* get_listings(floorplan, listing_text): a snippet is given by what
\* match_listing finds in it (regex_listing) and by the service's answer for
\* it (ai_listing).  [exc, val]: the first exception ends the loop.
\* One turn of get_listings' loop: ai is what ai_parse_listings gave, rest
\* the turns that follow.
listing_turn(regex_listing, ai, rest) ==
    IF ~IsNone(ai.exc) THEN [exc |-> ai.exc, val |-> <<>>]
    ELSE IF ~IsNone(rest.exc) THEN rest
    ELSE [exc |-> None, val |-> <<merge_listing(regex_listing, ai.val)>> \o rest.val]

RECURSIVE get_listings(_)
get_listings(listing_text) ==
    IF listing_text = <<>> THEN [exc |-> None, val |-> <<>>]
    ELSE listing_turn(Head(listing_text).regex_listing,
                      ai_parse_listings(Head(listing_text).regex_listing,
                                        Head(listing_text).ai_listing),
                      get_listings(Tail(listing_text)))

\* get_snapshots(floorplan, snapshot_text): price and availability are what
\* match_snapshot's searches find in the snippet, ai_snapshot the service's
\* answer for it.
\* One turn of get_snapshots' loop: re is what match_snapshot gave, ai what
\* ai_parse_listing_snapshots gave (or the exception of re), rest the turns
\* that follow.
snapshot_merge(re, ai, rest) ==
    IF ~IsNone(ai.exc) THEN [exc |-> ai.exc, val |-> <<>>]
    ELSE IF ~IsNone(rest.exc) THEN rest
    ELSE [exc |-> None, val |-> <<merge_snapshot(re.val, ai.val)>> \o rest.val]

snapshot_turn(re, answer, rest) ==
    snapshot_merge(re,
                   IF IsNone(re.exc) THEN ai_parse_listing_snapshots(re.val, answer)
                   ELSE [exc |-> re.exc, val |-> EmptyDict],
                   rest)

RECURSIVE get_snapshots(_)
get_snapshots(snapshot_text) ==
    IF snapshot_text = <<>> THEN [exc |-> None, val |-> <<>>]
    ELSE snapshot_turn(match_snapshot(Head(snapshot_text).price,
                                      Head(snapshot_text).availability),
                       Head(snapshot_text).ai_snapshot,
                       get_snapshots(Tail(snapshot_text)))

\* Python binds a call's positional arguments before the body runs:
\* Database.insert_listings and Database.insert_listing_snapshots each take
\* (site_id, property_id, <rows>), and a call with another number of
\* arguments raises TypeError without running the body.  [exc, store, ran].
Ran(r) == [exc |-> r.exc, store |-> r.store, ran |-> TRUE]

call_insert_listings(st, args) ==
    IF Len(args) # 3 THEN [exc |-> Some("TypeError"), store |-> st, ran |-> FALSE]
    ELSE Ran(insert_listings(st, args[1], args[2], args[3]))

call_insert_listing_snapshots(st, args) ==
    IF Len(args) # 3 THEN [exc |-> Some("TypeError"), store |-> st, ran |-> FALSE]
    ELSE Ran(insert_listing_snapshots(st, args[1], args[2], args[3]))

AsDicts(ds) == [i \in 1..Len(ds) |-> PyDict(ds[i])]

\* Python's truth value of an Optional str: None and "" are false.
Truthy(v) == ~IsNone(v) /\ Val(v) # <<>>

\* A failure exit that records an empty selector for the scope.
select_failed_writes(st, fp, events) ==
    [selector |-> None, store |-> save_selector(st, <<>>, fp.site_id, fp.property_id),
     closed |-> TRUE, outcome |-> "failed",
     events |-> events \o <<"nav.close", "db.close">>]

\* select's two failure exits (lines 155-158 and 180-183): the session and
\* the connection are closed and None is returned; nothing is written.
select_failed(st, fp, events) ==
    [selector |-> None, store |-> st, closed |-> TRUE, outcome |-> "failed",
     events |-> events \o <<"nav.close", "db.close">>]

\* select after init_container answered: t is what testing the candidates
\* gave.
select_tested(st, fp, t) ==
    IF ~Truthy(t.chosen)
    THEN select_failed(st, fp, <<"db.get_selector", "ai.init_container">>
                               \o [k \in 1..t.tested |-> "test"])
    ELSE [selector |-> t.chosen,
          store |-> save_selector(st, Val(t.chosen), fp.site_id, fp.property_id),
          closed |-> FALSE, outcome |-> "discovered",
          events |-> <<"db.get_selector", "ai.init_container">>
                     \o [k \in 1..t.tested |-> "test"] \o <<"db.save_selector">>]

\* select after db.get_selector answered selector.
select_from(st, fp, env, selector) ==
    IF Truthy(selector)
    THEN [selector |-> selector, store |-> st, closed |-> FALSE, outcome |-> "cached",
          events |-> <<"db.get_selector">>]
    ELSE IF ~env.text_ok
    THEN select_failed(st, fp, <<"db.get_selector", "ai.init_container">>)
    ELSE select_tested(st, fp, TestCandidates(env.candidates, env.outcomes))

\* select(floorplan, nav, db).  env is what the page and the extractor answer:
\* env.text_ok is FALSE when nav.get_text or init_container raises,
\* env.candidates the selectors proposed, env.outcomes the result of testing
\* each.  [selector, store, events, closed]: closed when select itself closed
\* the session and the connection before returning None.
select(st, fp, env) ==
    select_from(st, fp, env, get_selector(st, fp.site_id, fp.property_id))

\* A listing branch that writes the count whatever the insert gave.
listings_inserted_count_anyway(fp, count, ins) ==
    [exc |-> ins.exc,
     store |-> update_listing_count(ins.store, fp.site_id, fp.property_id, count),
     events |-> <<"get_listings", "call insert_listings">>
                \o (IF ins.ran THEN <<"db.insert_listings">> ELSE <<>>)
                \o <<"db.update_listing_count">>]

\* Lines 122-124, ins being what the call of db.insert_listings gave.
listings_inserted(fp, count, ins) ==
    IF ~IsNone(ins.exc)
    THEN [exc |-> ins.exc, store |-> ins.store,
          events |-> <<"get_listings", "call insert_listings">>
                     \o IF ins.ran THEN <<"db.insert_listings">> ELSE <<>>]
    ELSE [exc |-> None,
          store |-> update_listing_count(ins.store, fp.site_id, fp.property_id, count),
          events |-> <<"get_listings", "call insert_listings", "db.insert_listings",
                       "db.update_listing_count">>]

\* Lines 120-124, g being what get_listings gave.
listings_got(st, fp, count, g) ==
    IF ~IsNone(g.exc)
    THEN [exc |-> g.exc, store |-> st, events |-> <<"get_listings", "get_listings raised">>]
    ELSE IF g.val = <<>>
    THEN [exc |-> None, store |-> st, events |-> <<"get_listings">>]
    ELSE listings_inserted(fp, count,
             call_insert_listings(st, <<fp.site_id, AsDicts(g.val)>>))

listing_step(st, fp, count, snippets) == listings_got(st, fp, count, get_listings(snippets))

\* scrape_fp's snapshot step (lines 128-130): [exc, store, events].
\* Line 130, ins being what the call of db.insert_listing_snapshots gave.
snapshots_inserted(ins) ==
    [exc |-> ins.exc, store |-> ins.store,
     events |-> <<"get_snapshots", "call insert_listing_snapshots">>
                \o IF ins.ran THEN <<"db.insert_listing_snapshots">> ELSE <<>>]

\* Lines 129-130, g being what get_snapshots gave.
snapshots_got(st, fp, g) ==
    IF ~IsNone(g.exc)
    THEN [exc |-> g.exc, store |-> st, events |-> <<"get_snapshots", "get_snapshots raised">>]
    ELSE snapshots_inserted(
             call_insert_listing_snapshots(st, <<fp.site_id, AsDicts(g.val)>>))

snapshot_step(st, fp, snippets) == snapshots_got(st, fp, get_snapshots(snippets))

\* The change detector's test (line 118).
changed(prev_count, count) == IsNone(prev_count) \/ Val(prev_count) # count

\* scrape_fp from line 107 to its end: the try block with its handler and its
\* finally.  count is the live number of elements, snippets their inner HTML;
\* wait_for_selector raises when nothing matches.  [store, events].
PassHead == <<"count", "db.get_listing_count">>
PassClosing == <<"nav.close", "db.close">>

\* The end of the try block: l is what the listing branch gave, s what the
\* snapshot step gave after it.
pass_end(l, s) ==
    [store |-> s.store,
     events |-> PassHead \o l.events \o s.events
                \o (IF ~IsNone(s.exc) THEN <<"except">> ELSE <<>>) \o PassClosing]

\* A pass that takes the snapshot step before the listing branch.
pass_snapshots_first(fp, snippets, l) ==
    [store |-> l.store,
     events |-> PassHead \o snapshot_step(l.store, fp, snippets).events \o l.events
                \o PassClosing]

\* Lines 128-135 after the listing branch gave l.
pass_after_listings(fp, snippets, l) ==
    IF ~IsNone(l.exc)
    THEN [store |-> l.store,
          events |-> PassHead \o l.events \o <<"except">> \o PassClosing]
    ELSE pass_end(l, snapshot_step(l.store, fp, snippets))

scrape_pass(st, fp, count, snippets) ==
    IF count = 0
    THEN [store |-> st, events |-> PassHead \o <<"except">> \o PassClosing]
    ELSE IF snippets = <<>>
    THEN [store |-> st, events |-> PassHead \o PassClosing]
    ELSE pass_after_listings(fp, snippets,
             IF changed(get_listing_count(st, fp.site_id, fp.property_id), count)
             THEN listing_step(st, fp, count, snippets)
             ELSE [exc |-> None, store |-> st, events |-> <<>>])

\* ------------------------------------------------------------------ the environment

\* Selectors as the extractor may propose them, and one already stored.
SelDotDivFoo == <<".", "d", ".", "f">>
SelDivBar == <<"d", ".", "b">>
SelAttr == <<"[", "i", "=", "\"", "x", "\"", "]">>
CachedSel == <<"d", ".", "c">>

\* What the extractor answers to init_container in a run: 1 or 2 selectors.
RunCandidates == {<<SelDotDivFoo>>, <<SelDivBar, SelAttr>>}

\* What testing a candidate gives in a run: wait_for_selector raises (None),
\* or a number of elements below, inside or above the window.
RunOutcomes == {None, Some(WindowLow), Some(WindowLow + 1), Some(WindowHigh + 1)}

SelectEnvs ==
    {[text_ok |-> FALSE, candidates |-> <<SelDivBar>>, outcomes |-> <<None>>]}
    \cup UNION {{[text_ok |-> TRUE, candidates |-> c, outcomes |-> o] :
                    o \in [1..Len(c) -> RunOutcomes]} : c \in RunCandidates}

\* The snippets of a page in a run: what the regex passes find in each and
\* what the extractor answers for it.
ExtractorError == [exc |-> Some("APIError"), val |-> EmptyDict]
Answer(d) == [exc |-> None, val |-> d]

RunSnippets ==
    {[regex_listing |-> [bedrooms |-> Some("2"), bathrooms |-> None, sqft |-> None],
      ai_listing |-> Answer([listname |-> Some("A"), sqft |-> Some("850")]),
      price |-> Some(<<<<"9", "0", "0">>, None>>), availability |-> None,
      ai_snapshot |-> Answer([listname |-> Some("A")])],
     [regex_listing |-> [bedrooms |-> None, bathrooms |-> None, sqft |-> None],
      ai_listing |-> ExtractorError,
      price |-> None, availability |-> None,
      ai_snapshot |-> Answer([listname |-> Some("B")])],
     [regex_listing |-> [bedrooms |-> Some("1"), bathrooms |-> Some("1"), sqft |-> None],
      ai_listing |-> Answer([listname |-> Some("B")]),
      price |-> None, availability |-> Some("3"),
      ai_snapshot |-> ExtractorError]}

RECURSIVE SeqsOfLen(_, _)
SeqsOfLen(S, n) ==
    IF n = 0 THEN {<<>>}
    ELSE {<<x>> \o s : x \in S, s \in SeqsOfLen(S, n - 1)}

LiveCounts == 0..MaxCount

\* What classifying a site finds: the link match_fp returns and the answer of
\* ai_init, or an exception inside the try block.
\* A multi-property answer lists the site's properties under "properties":
\* one building and one unit type, or two buildings and one unit type.
PropertyEntry(title) == [title |-> title, floorplans_url |-> Some("property_url")]
MultiAnswers ==
    {[properties |-> PyList(<<PropertyEntry("Tower A"), PropertyEntry("2 Bedroom")>>)],
     [properties |-> PyList(<<PropertyEntry("Tower A"), PropertyEntry("2 Bedroom"),
                              PropertyEntry("Tower B")>>)]}

InitEnvs ==
    {[ok |-> FALSE, link |-> None, ai |-> EmptyDict]}
    \cup {[ok |-> TRUE, link |-> l, ai |-> a] :
            l \in {None, Some("re_url")},
            a \in {EmptyDict, [floorplans_url |-> Some("ai_url")]} \cup MultiAnswers}

\* What the page and the extractor answer to a task of scrape_fp after the page
\* has loaded: select's part, whether the locator's count succeeds, the live
\* count and the snippets.
PassEnvs ==
    {[sel |-> s, count_ok |-> FALSE, snippets |-> <<>>] : s \in SelectEnvs}
    \cup {[sel |-> s, count_ok |-> TRUE, snippets |-> sn] :
            s \in SelectEnvs,
            sn \in UNION {SeqsOfLen(RunSnippets, n) : n \in LiveCounts}}

\* The answers drawn from when the gate is under load: every browser launches,
\* every page loads, and the count raises or finds no element.
GateEnvs == {e \in PassEnvs : ~e.sel.text_ok /\ e.snippets = <<>>}

EnvsOf(which) == IF which = "gate" THEN GateEnvs ELSE PassEnvs
LaunchAnswers(which) == IF which = "gate" THEN {TRUE} ELSE BOOLEAN
LoadAnswers(which) == IF which = "gate" THEN {"ok"} ELSE {"ok", "TimeoutError", "Error"}

\* The listnames get_listings extracts from the snippets of a page.
ListedNames(snippets) ==
    LET g == get_listings(snippets)
    IN IF ~IsNone(g.exc) THEN {}
       ELSE {g.val[k]["listname"] : k \in {j \in DOMAIN g.val : "listname" \in DOMAIN g.val[j]}}

\* scrape_fp from line 97 to its end.  [store, events, nav, conn, raised, ...]:
\* the store it leaves, what it did in order, the state it leaves its browser
\* and its connection in, and whether an exception left the task.
scrape_fp_selected(st, fp, env, s) ==
    LET base == [store |-> s.store, events |-> s.events, nav |-> "open", conn |-> "open",
                 raised |-> FALSE, outcome |-> s.outcome, selector |-> s.selector,
                 select_events |-> s.events, select_wrote |-> s.store # st,
                 prev_count |-> get_listing_count(st, fp.site_id, fp.property_id),
                 count |-> None, listed |-> {}]
    IN IF IsNone(s.selector)
       THEN [base EXCEPT !.events = @ \o <<"nav.close">>, !.nav = "closed", !.conn = "closed"]
       ELSE IF ~env.count_ok
       THEN [base EXCEPT !.events = @ \o <<"count">>, !.raised = TRUE]
       ELSE [base EXCEPT !.store = scrape_pass(s.store, fp, Len(env.snippets),
                                               env.snippets).store,
                         !.events = @ \o scrape_pass(s.store, fp, Len(env.snippets),
                                                     env.snippets).events,
                         !.nav = "closed", !.conn = "closed",
                         !.count = Some(Len(env.snippets)),
                         !.listed = ListedNames(env.snippets)]

scrape_fp_rest(st, fp, env) == scrape_fp_selected(st, fp, env, select(st, fp, env.sel))

\* ------------------------------------------------------------------ the tasks

NewTask(kind, site_id, property_id) ==
    [kind |-> kind, site_id |-> site_id, property_id |-> property_id,
     pc |-> "new", nav |-> "none", conn |-> "none", holds |-> FALSE,
     raised |-> FALSE]

\* gather without return_exceptions: the await ends as soon as a task raises.
gather_fail_fast(ts) ==
    \/ \A i \in DOMAIN ts : ts[i].pc = "done"
    \/ \E i \in DOMAIN ts : ts[i].raised

\* Tasks that are created and not awaited.
gather_not_awaited(ts) == TRUE

\* asyncio.gather(*tasks, return_exceptions=True): the await ends when every
\* task has ended, whether it returned or raised.
gather_done(ts) == \A i \in DOMAIN ts : ts[i].pc = "done"

\* init_all_sites' task list: the sites not previously visited, in order.
init_tasks(st) ==
    LET ids == SelectSeq([i \in DOMAIN st.site |-> i],
                         LAMBDA i : ~previously_visited(st, i))
    IN [k \in 1..Len(ids) |-> NewTask("init", ids[k], None)]

\* scrape_all_fp's task list: one task per floorplan target.
fp_tasks(fps) == [k \in 1..Len(fps) |-> NewTask("fp", fps[k].site_id, fps[k].property_id)]

Target(t) == [site_id |-> t.site_id, property_id |-> t.property_id]

\* ------------------------------------------------------------------ the store at start

MaxSites == 2
MaxProps == 2

\* A scope's selector and count columns at the start of the first run: a count
\* is only ever written for a scope that has a selector.
ScopeSeeds ==
    {[sel |-> None, cnt |-> None]}
    \cup {[sel |-> Some(CachedSel), cnt |-> c] :
            c \in {None} \cup {Some(n) : n \in 1..MaxCount}}

\* A site row as seeded: unvisited, with its own floorplans URL, or with
\* Property rows that each have a URL.  seeds holds the seed of each scope.
SiteShapes ==
    {[kind |-> "unvisited", seeds |-> <<>>]}
    \cup {[kind |-> "single", seeds |-> <<s>>] : s \in ScopeSeeds}
    \cup {[kind |-> "multi", seeds |-> [k \in 1..MaxProps |-> s]] : s \in ScopeSeeds}

\* The site table at start: one site of any shape, or up to MaxSites
\* unvisited sites.
SeedShapes ==
    {<<s>> : s \in SiteShapes}
    \cup {[i \in 1..n |-> [kind |-> "unvisited", seeds |-> <<>>]] : n \in 1..MaxSites}

RECURSIVE SeedProperties(_, _)
SeedProperties(shapes, i) ==
    IF i > Len(shapes) THEN <<>>
    ELSE (IF shapes[i].kind = "multi"
          THEN [k \in 1..Len(shapes[i].seeds) |->
                  [site_id |-> i,
                   floorplans_url |-> Some("property_url"),
                   title |-> "p",
                   container_selector |-> shapes[i].seeds[k].sel,
                   listing_count |-> shapes[i].seeds[k].cnt]]
          ELSE <<>>) \o SeedProperties(shapes, i + 1)

SeedStore(shapes) ==
    [site |-> [i \in 1..Len(shapes) |->
                 [floorplans_url |-> IF shapes[i].kind = "single"
                                     THEN Some("site_url") ELSE None,
                  address |-> None,
                  container_selector |-> IF shapes[i].kind = "single"
                                         THEN shapes[i].seeds[1].sel ELSE None,
                  listing_count |-> IF shapes[i].kind = "single"
                                    THEN shapes[i].seeds[1].cnt ELSE None]],
     property |-> SeedProperties(shapes, 1),
     listing |-> <<>>,
     snapshot |-> <<>>]

NoInput == [fn |-> "none"]
NoOutput == [done |-> FALSE]
Nothing == [op |-> "none"]

Init ==
    /\ store \in {SeedStore(shapes) : shapes \in SeedShapes}
    /\ mainpc = "start"
    /\ run = 1
    /\ permits = GateSize
    /\ tasks = <<>>
    /\ hist = {}
    /\ last = Nothing
    /\ observe = TRUE
    /\ envs = "pass"
    /\ mIn = NoInput
    /\ mOut = NoOutput

Observed(what) == IF observe THEN what ELSE Nothing

\* ------------------------------------------------------------------ main()

\* main() up to init_all_sites' gather: connect, the semaphore, the site list
\* and the init_site tasks.
MainStart ==
    /\ mainpc = "start"
    /\ mainpc' = "init"
    /\ permits' = GateSize
    /\ tasks' = init_tasks(store)
    /\ last' = Nothing
    /\ UNCHANGED <<store, run, hist, observe, envs, mIn, mOut>>

\* init_all_sites returns; main reads the floorplan targets and scrape_all_fp
\* makes its tasks.
InitGatherDone ==
    /\ mainpc = "init"
    /\ gather_done(tasks)
    /\ mainpc' = "scrape"
    /\ tasks' = fp_tasks(get_floorplan_urls(store))
    /\ last' = Nothing
    /\ UNCHANGED <<store, run, permits, hist, observe, envs, mIn, mOut>>

\* scrape_all_fp returns; main closes its connection and ends.
ScrapeGatherDone ==
    /\ mainpc = "scrape"
    /\ gather_done(tasks)
    /\ mainpc' = "done"
    /\ last' = Nothing
    /\ UNCHANGED <<store, run, permits, tasks, hist, observe, envs, mIn, mOut>>

\* The program is run again on the store the last run left.
NextRun ==
    /\ mainpc = "done"
    /\ run < MaxRuns
    /\ run' = run + 1
    /\ mainpc' = "start"
    /\ tasks' = <<>>
    /\ last' = Nothing
    /\ UNCHANGED <<store, permits, hist, observe, envs, mIn, mOut>>

\* ------------------------------------------------------------------ the gate

\* A task's first lines: Database(), db.connect(); the task is then at
\* "async with sem".
Enter(t) == [t EXCEPT !.conn = "open", !.pc = "waiting"]

\* A gate that admits no one: the task stays where it is.
Admit_never(t) == t

\* "async with sem": the task at the gate takes a permit when one is free.
Admit(t) == [t EXCEPT !.holds = TRUE, !.pc = "gated"]

\* The task ends, by a return or by an exception that leaves it; leaving
\* "async with sem" gives the permit back.
Ended(t) == [t EXCEPT !.pc = "done", !.holds = FALSE]

\* An exception that leaves the task without giving its permit back.
Failed_keeps_permit(t) == [t EXCEPT !.pc = "done", !.raised = TRUE]

\* The task ends by an exception that leaves it.
Failed(t) == [Ended(t) EXCEPT !.raised = TRUE]

Held(t) == IF t.holds THEN 1 ELSE 0

\* asyncio.gather wraps its coroutines in tasks in argument order and the event
\* loop runs ready tasks first in, first out: a task starts after the tasks
\* before it in the list have started.
Startable(i) == tasks[i].pc = "new" /\ \A j \in 1..(i - 1) : tasks[j].pc # "new"

Step(i, t) ==
    /\ tasks' = [tasks EXCEPT ![i] = t]
    /\ permits' = permits + Held(tasks[i]) - Held(t)

\* ------------------------------------------------------------------ init_site

\* ai_init(url, text, filled): the properties not in filled are asked for and
\* the answer is returned.
ai_init(filled, answer) ==
    IF {"deals", "amenities", "state", "address", "floorplans_url"} \ DOMAIN filled = {}
    THEN EmptyDict ELSE Unwrapped(answer)

\* regex_filled and ai_filled of init_site (lines 55-61).
regex_filled_of(link) == IF ~IsNone(link) THEN [floorplans_url |-> link] ELSE EmptyDict
ai_filled_of(link, answer) == ai_init(regex_filled_of(link), answer)

\* init_site's try block raises: the page text, the links or the extractor
\* fail (env.ok is FALSE), or ai_init returned a list, which the merge
\* {**ai_filled, **regex_filled} rejects with a TypeError.
try_raises(env) == ~env.ok \/ IsList(ai_filled_of(env.link, env.ai))

\* A merge in which the extractor's answer overrides the regex match.
site_data_ai_last(link, answer) ==
    LET regex_filled == IF ~IsNone(link) THEN [floorplans_url |-> link] ELSE EmptyDict
    IN DictMerge(regex_filled, ai_init(regex_filled, answer))

\* site_data = {**ai_filled, **regex_filled}
site_data_of(link, answer) ==
    LET regex_filled == IF ~IsNone(link) THEN [floorplans_url |-> link] ELSE EmptyDict
    IN DictMerge(ai_init(regex_filled, answer), regex_filled)

\* An init_site whose handler records the failure in the site's row.
init_site_marks_failure(st, site_id, env) ==
    IF try_raises(env)
    THEN [store |-> [st EXCEPT !.site[site_id].floorplans_url = Some("failed")],
          events |-> <<"except", "nav.close">>, nav |-> "closed",
          conn |-> "open", raised |-> FALSE, site_data |-> EmptyDict]
    ELSE [store |-> st, events |-> <<"ai_init", "nav.close", "call insert_site">>,
          nav |-> "closed", conn |-> "open", raised |-> TRUE,
          site_data |-> site_data_of(env.link, env.ai)]

\* init_site from its try block to its end (lines 51-73).  An exception in the
\* try block is caught and init_site returns; the browser is closed either
\* way.  Then db.insert_site(id, site_data), site_data being a dict, and
\* db.close().
init_site_rest(st, site_id, env) ==
    IF try_raises(env)
    THEN [store |-> st, events |-> <<"except", "nav.close">>, nav |-> "closed",
          conn |-> "open", raised |-> FALSE, site_data |-> EmptyDict]
    ELSE LET r == insert_site(st, site_id, PyDict(site_data_of(env.link, env.ai))) IN
         IF ~IsNone(r.exc)
         THEN [store |-> r.store, events |-> <<"ai_init", "nav.close", "call insert_site">>,
               nav |-> "closed", conn |-> "open", raised |-> TRUE,
               site_data |-> site_data_of(env.link, env.ai)]
         ELSE [store |-> r.store,
               events |-> <<"ai_init", "nav.close", "call insert_site", "db.insert_site",
                            "db.close">>,
               nav |-> "closed", conn |-> "closed", raised |-> FALSE,
               site_data |-> site_data_of(env.link, env.ai)]

InitStart(i) ==
    /\ mainpc = "init" /\ Startable(i)
    /\ Step(i, Enter(tasks[i]))
    /\ last' = Nothing
    /\ UNCHANGED <<store, mainpc, run, hist, observe, envs, mIn, mOut>>

InitAcquire(i) ==
    /\ mainpc = "init" /\ tasks[i].pc = "waiting"
    /\ permits > 0
    /\ Step(i, Admit(tasks[i]))
    /\ last' = Nothing
    /\ UNCHANGED <<store, mainpc, run, hist, observe, envs, mIn, mOut>>

\* nav.setup(): the browser is launched, or the launch raises.
InitLaunch(i) ==
    /\ mainpc = "init" /\ tasks[i].pc = "gated"
    /\ \E ok \in LaunchAnswers(envs) :
         /\ Step(i, IF ok THEN [tasks[i] EXCEPT !.nav = "open", !.pc = "launched"]
                    ELSE Failed(tasks[i]))
         /\ last' = Observed([op |-> "launch", kind |-> "init", ok |-> ok])
    /\ UNCHANGED <<store, mainpc, run, hist, observe, envs, mIn, mOut>>

\* nav.get_page(site["url"]) (line 50, outside the try): an exception leaves
\* init_site with the browser open.
InitLoad(i) ==
    /\ mainpc = "init" /\ tasks[i].pc = "launched"
    /\ \E ok \in BOOLEAN :
         /\ Step(i, IF ok THEN [tasks[i] EXCEPT !.pc = "loaded"] ELSE Failed(tasks[i]))
         /\ last' = Observed([op |-> "load", kind |-> "init", ok |-> ok])
    /\ UNCHANGED <<store, mainpc, run, hist, observe, envs, mIn, mOut>>

InitClassify(i) ==
    /\ mainpc = "init" /\ tasks[i].pc = "loaded"
    /\ \E env \in InitEnvs :
         LET r == init_site_rest(store, tasks[i].site_id, env) IN
         /\ store' = r.store
         /\ Step(i, Ended([tasks[i] EXCEPT !.nav = r.nav, !.conn = r.conn,
                                            !.raised = r.raised]))
         /\ last' = Observed([op |-> "init_site", site_id |-> tasks[i].site_id,
                              events |-> r.events, raised |-> r.raised,
                              link |-> env.link, answer |-> env.ai,
                              site_data |-> r.site_data])
         /\ hist' = IF observe /\ try_raises(env)
                    THEN hist \cup {[run |-> run, site_id |-> tasks[i].site_id,
                                     property_id |-> None, selector |-> None,
                                     outcome |-> "init failed"]}
                    ELSE hist
    /\ UNCHANGED <<mainpc, run, observe, envs, mIn, mOut>>

\* ------------------------------------------------------------------ scrape_fp

FpStart(i) ==
    /\ mainpc = "scrape" /\ Startable(i)
    /\ Step(i, Enter(tasks[i]))
    /\ last' = Nothing
    /\ UNCHANGED <<store, mainpc, run, hist, observe, envs, mIn, mOut>>

FpAcquire(i) ==
    /\ mainpc = "scrape" /\ tasks[i].pc = "waiting"
    /\ permits > 0
    /\ Step(i, Admit(tasks[i]))
    /\ last' = Nothing
    /\ UNCHANGED <<store, mainpc, run, hist, observe, envs, mIn, mOut>>

\* nav.setup()
FpLaunch(i) ==
    /\ mainpc = "scrape" /\ tasks[i].pc = "gated"
    /\ \E ok \in LaunchAnswers(envs) :
         /\ Step(i, IF ok THEN [tasks[i] EXCEPT !.nav = "open", !.pc = "launched"]
                    ELSE Failed(tasks[i]))
         /\ last' = Observed([op |-> "launch", kind |-> "fp", ok |-> ok])
    /\ UNCHANGED <<store, mainpc, run, hist, observe, envs, mIn, mOut>>

\* What nav.get_page does to a task of scrape_fp (lines 91-95) and the end of
\* "async with sem": the page loads and the task goes on outside the gate; or
\* a TimeoutError is caught and scrape_fp returns; or another exception leaves
\* scrape_fp.  The permit is given back in each case, the browser stays open.
fp_loaded(t, res) ==
    IF res = "ok" THEN [t EXCEPT !.holds = FALSE, !.pc = "loaded"]
    ELSE IF res = "TimeoutError" THEN Ended(t)
    ELSE Failed(t)

FpLoad(i) ==
    /\ mainpc = "scrape" /\ tasks[i].pc = "launched"
    /\ \E res \in LoadAnswers(envs) :
         /\ Step(i, fp_loaded(tasks[i], res))
         /\ last' = Observed([op |-> "load", kind |-> "fp", ok |-> res = "ok"])
    /\ UNCHANGED <<store, mainpc, run, hist, observe, envs, mIn, mOut>>

\* The rest of scrape_fp: select, the live count, the pass.
FpPass(i) ==
    /\ mainpc = "scrape" /\ tasks[i].pc = "loaded"
    /\ \E r \in {scrape_fp_rest(store, Target(tasks[i]), env) : env \in EnvsOf(envs)} :
         LET t == tasks[i]
         IN /\ store' = r.store
            /\ Step(i, Ended([t EXCEPT !.nav = r.nav, !.conn = r.conn,
                                       !.raised = r.raised]))
            /\ hist' = IF observe
                       THEN hist \cup {[run |-> run, site_id |-> t.site_id,
                                        property_id |-> t.property_id,
                                        selector |-> r.selector,
                                        outcome |-> r.outcome]}
                       ELSE hist
            /\ last' = Observed([op |-> "scrape_fp", site_id |-> t.site_id,
                                 property_id |-> t.property_id,
                                 outcome |-> r.outcome,
                                 select_events |-> r.select_events,
                                 select_wrote |-> r.select_wrote,
                                 selector |-> r.selector, prev_count |-> r.prev_count,
                                 count |-> r.count, events |-> r.events,
                                 listed |-> r.listed,
                                 raised |-> r.raised])
    /\ UNCHANGED <<mainpc, run, observe, envs, mIn, mOut>>

Next ==
    \/ MainStart
    \/ InitGatherDone
    \/ ScrapeGatherDone
    \/ NextRun
    \/ \E i \in DOMAIN tasks : InitStart(i)
    \/ \E i \in DOMAIN tasks : InitAcquire(i)
    \/ \E i \in DOMAIN tasks : InitLaunch(i)
    \/ \E i \in DOMAIN tasks : InitLoad(i)
    \/ \E i \in DOMAIN tasks : InitClassify(i)
    \/ \E i \in DOMAIN tasks : FpStart(i)
    \/ \E i \in DOMAIN tasks : FpAcquire(i)
    \/ \E i \in DOMAIN tasks : FpLaunch(i)
    \/ \E i \in DOMAIN tasks : FpLoad(i)
    \/ \E i \in DOMAIN tasks : FpPass(i)

Spec == Init /\ [][Next]_vars

\* ------------------------------------------------------------------ the gate under load

\* One unvisited site and GateSize + 1 sites that each have a floorplans URL
\* and a cached selector: one more target than the gate has permits.
GateShapes ==
    [i \in 1..(GateSize + 2) |->
        IF i = 1 THEN [kind |-> "unvisited", seeds |-> <<>>]
        ELSE IF i = GateSize + 2
        THEN [kind |-> "multi", seeds |-> <<[sel |-> Some(CachedSel), cnt |-> None]>>]
        ELSE [kind |-> "single", seeds |-> <<[sel |-> Some(CachedSel), cnt |-> None]>>]]

InitGate ==
    /\ store = SeedStore(GateShapes)
    /\ mainpc = "start"
    /\ run = 1
    /\ permits = GateSize
    /\ tasks = <<>>
    /\ hist = {}
    /\ last = Nothing
    /\ observe = FALSE
    /\ envs = "gate"
    /\ mIn = NoInput
    /\ mOut = NoOutput

SpecGate == InitGate /\ [][Next]_vars

\* The gate under load with the event loop's scheduling: every awaited call
\* returns or raises, and the loop runs a task that is ready, so a step is
\* taken as long as one can be.
SpecLive == InitGate /\ [][Next]_vars /\ WF_vars(Next)

\* ------------------------------------------------------------------ the functions alone

MaxCandidates == 3
MaxSnippets == 2

EmptyStore == [site |-> <<>>, property |-> <<>>, listing |-> <<>>, snapshot |-> <<>>]

\* Candidate lists as init_container may return them, each selector differing
\* from its neighbours, with what testing each candidate gives: the wait
\* fails, or a number of elements at, inside or beyond the ends of the window.
RankedSelectors == <<SelDotDivFoo, SelAttr, SelDivBar>>

CandidateInputs ==
    UNION {{[fn |-> "TestCandidates",
             candidates |-> [i \in 1..n |-> RankedSelectors[((i - 1) % 3) + 1]],
             outcomes |-> o, snippets |-> <<>>] :
                o \in [1..n -> {None, Some(WindowLow), Some(3), Some(WindowHigh),
                                Some(WindowHigh + 1), Some(60)}]} :
           n \in 1..MaxCandidates}

\* Listing snippets: what match_listing finds and what the extractor answers:
\* a failure, no field, a field the regex pass left open or one it resolved,
\* a null, and answers wrapped in "properties".
ListingSnippets ==
    {[regex_listing |-> re, ai_listing |-> a] :
        re \in {[bedrooms |-> None, bathrooms |-> None, sqft |-> None],
                [bedrooms |-> Some("2"), bathrooms |-> None, sqft |-> Some("700")]},
        a \in {ExtractorError, Answer(EmptyDict), Answer([bedrooms |-> Some("3")]),
               Answer([sqft |-> None]), Answer([properties |-> [sqft |-> Some("3")]]),
               Answer([properties |-> EmptyDict])}}

\* Snapshot snippets: the groups of the price pattern, and the extractor's
\* answer.
SnapshotSnippets ==
    {[price |-> p, availability |-> None, ai_snapshot |-> a] :
        p \in {None, Some(<<<<"9", "0", "0">>, None>>),
               Some(<<<<"9", "0", "0">>, Some(<<"8", "0", "0">>)>>)},
        a \in {ExtractorError, Answer(EmptyDict),
               Answer([price_high |-> Some(<<"8", "0", "0">>)]),
               Answer([properties |-> [price_low |-> Some(<<"9", "5", "0">>)]])}}

ListingInputs ==
    {[fn |-> "get_listings", candidates |-> <<>>, outcomes |-> <<>>, snippets |-> sn] :
        sn \in UNION {SeqsOfLen(ListingSnippets, n) : n \in 0..MaxSnippets}}

SnapshotInputs ==
    {[fn |-> "get_snapshots", candidates |-> <<>>, outcomes |-> <<>>, snippets |-> sn] :
        sn \in UNION {SeqsOfLen(SnapshotSnippets, n) : n \in 0..MaxSnippets}}

\* The groups of the price pattern in a snippet: none without a match, else
\* the first group and the second, which is None when it took no part.
PriceTexts == {<<"9", "0", "0">>, <<"8", "0", "0">>,
               <<"1", ",", "6", "9", "5">>, <<"1", ",", "7", "6", "0">>}

MatchInputs ==
    {[fn |-> "match_snapshot", price |-> p, availability |-> a] :
        p \in {None} \cup {Some(<<l, h>>) : l \in PriceTexts,
                                            h \in {None} \cup {Some(t) : t \in PriceTexts}},
        a \in {None, Some("3")}}

\* What the regex pass hands to the extractor as filled, with the service's
\* answer.
RequestInputs ==
    {[fn |-> "ai_parse_listings", filled |-> f, response |-> r] :
        f \in [{"bedrooms", "bathrooms", "sqft"} -> {None, Some("2")}],
        r \in {ExtractorError, Answer([listname |-> Some("A")])}}
    \cup {[fn |-> "ai_parse_listing_snapshots", filled |-> f, response |-> r] :
            f \in [{"price_low", "price_high", "availability"} -> {None, Some("2")}],
            r \in {ExtractorError, Answer([listname |-> Some("A")])}}

\* select on a target of a site without a stored selector: what the page and
\* the extractor answer, and the ids of the page, which select does not read:
\* how often the most frequent id prefix occurs and how many elements a
\* selector on that prefix would match.
SelectInputs ==
    {[fn |-> "select",
      st |-> SeedStore(<<[kind |-> "single", seeds |-> <<[sel |-> None, cnt |-> None]>>]>>),
      env |-> e, prefix_count |-> n, prefix_matches |-> m] :
        e \in {x \in SelectEnvs : x.text_ok},
        n \in {0, 2, 3, 10}, m \in {0, 10, 100, 101}}

\* The listing branch of a pass (lines 119-124) on a target with a stored
\* selector and one or two extracted listings, count being their number:
\* argc is the number of arguments db.insert_listings is called with, 2 as
\* scrape_fp calls it, 3 as the method is declared.
BranchInputs ==
    {[fn |-> "listings_inserted",
      st |-> SeedStore(<<[kind |-> k, seeds |-> [j \in 1..(IF k = "single" THEN 1 ELSE MaxProps)
                                                  |-> [sel |-> Some(CachedSel), cnt |-> c]]]>>),
      fp |-> [site_id |-> 1, property_id |-> IF k = "single" THEN None ELSE Some(1)],
      listings |-> b, argc |-> a] :
        k \in {"single", "multi"}, c \in {None, Some(1)},
        b \in UNION {SeqsOfLen({PyObj([listname |-> n, bedrooms |-> None,
                                       bathrooms |-> None, sqft |-> None,
                                       shared_room |-> None, amenities |-> None]) :
                                    n \in {"A", "B"}}, len) : len \in 1..MaxSnippets},
        a \in {2, 3}}

\* Selectors as the extractor may write them: with a leading dot before an
\* element and a class or an id, a class alone, a class and a descendant,
\* an id, surrounding blanks, double quotes.
SanitizeInputs ==
    {[fn |-> "sanitize_selector", selector |-> sel] :
        sel \in {SelDotDivFoo, SelDivBar, SelAttr,
                 <<".", "d", "#", "x">>,
                 <<".", "f">>,
                 <<".", "f", " ", ".", "g">>,
                 <<"#", "x">>,
                 <<" ", "d", ".", "b", " ">>,
                 <<" ", ".", "d", ".", "f", "\n">>}}

MaxTargetRows == 3

\* The tables site and property as get_floorplan_urls may find them: each
\* site with no URL, an empty one or a URL, and up to MaxTargetRows property
\* rows of any site, each with or without a URL.
TargetSites ==
    [1..MaxSites -> {[floorplans_url |-> u, address |-> None,
                      container_selector |-> None, listing_count |-> None] :
                        u \in {None, Some(""), Some("site_url")}}]

TargetProperties ==
    UNION {[1..n -> {[site_id |-> i, floorplans_url |-> u, title |-> "p",
                      container_selector |-> None, listing_count |-> None] :
                        i \in 1..MaxSites,
                        u \in {None, Some("property_url")}}] :
             n \in 0..MaxTargetRows}

TargetInputs ==
    {[fn |-> "get_floorplan_urls",
      st |-> [site |-> s, property |-> p, listing |-> <<>>, snapshot |-> <<>>]] :
        s \in TargetSites, p \in TargetProperties}

InitPure ==
    /\ store = EmptyStore
    /\ mainpc = "pure"
    /\ run = 1
    /\ permits = GateSize
    /\ tasks = <<>>
    /\ hist = {}
    /\ last = Nothing
    /\ observe = FALSE
    /\ envs = "pass"
    /\ mIn \in CandidateInputs \cup ListingInputs \cup SnapshotInputs
                \cup MatchInputs \cup RequestInputs \cup SelectInputs
                \cup TargetInputs \cup BranchInputs \cup SanitizeInputs
    /\ mOut = NoOutput

ApplyTestCandidates ==
    /\ mainpc = "pure" /\ mIn.fn = "TestCandidates" /\ ~mOut.done
    /\ mOut' = [done |-> TRUE, val |-> TestCandidates(mIn.candidates, mIn.outcomes)]
    /\ UNCHANGED <<store, mainpc, run, permits, tasks, hist, last, observe, envs, mIn>>

ApplyGetListings ==
    /\ mainpc = "pure" /\ mIn.fn = "get_listings" /\ ~mOut.done
    /\ mOut' = [done |-> TRUE, val |-> get_listings(mIn.snippets)]
    /\ UNCHANGED <<store, mainpc, run, permits, tasks, hist, last, observe, envs, mIn>>

ApplyGetSnapshots ==
    /\ mainpc = "pure" /\ mIn.fn = "get_snapshots" /\ ~mOut.done
    /\ mOut' = [done |-> TRUE, val |-> get_snapshots(mIn.snippets)]
    /\ UNCHANGED <<store, mainpc, run, permits, tasks, hist, last, observe, envs, mIn>>

ApplyMatchSnapshot ==
    /\ mainpc = "pure" /\ mIn.fn = "match_snapshot" /\ ~mOut.done
    /\ mOut' = [done |-> TRUE, val |-> match_snapshot(mIn.price, mIn.availability)]
    /\ UNCHANGED <<store, mainpc, run, permits, tasks, hist, last, observe, envs, mIn>>

ApplyParseListings ==
    /\ mainpc = "pure" /\ mIn.fn = "ai_parse_listings" /\ ~mOut.done
    /\ mOut' = [done |-> TRUE, val |-> ai_parse_listings(mIn.filled, mIn.response)]
    /\ UNCHANGED <<store, mainpc, run, permits, tasks, hist, last, observe, envs, mIn>>

ApplyParseSnapshots ==
    /\ mainpc = "pure" /\ mIn.fn = "ai_parse_listing_snapshots" /\ ~mOut.done
    /\ mOut' = [done |-> TRUE, val |-> ai_parse_listing_snapshots(mIn.filled, mIn.response)]
    /\ UNCHANGED <<store, mainpc, run, permits, tasks, hist, last, observe, envs, mIn>>

ApplySelect ==
    /\ mainpc = "pure" /\ mIn.fn = "select" /\ ~mOut.done
    /\ mOut' = [done |-> TRUE,
                val |-> select(mIn.st, [site_id |-> 1, property_id |-> None], mIn.env)]
    /\ UNCHANGED <<store, mainpc, run, permits, tasks, hist, last, observe, envs, mIn>>

ApplyGetFloorplanUrls ==
    /\ mainpc = "pure" /\ mIn.fn = "get_floorplan_urls" /\ ~mOut.done
    /\ mOut' = [done |-> TRUE, val |-> get_floorplan_urls(mIn.st)]
    /\ UNCHANGED <<store, mainpc, run, permits, tasks, hist, last, observe, envs, mIn>>

ApplyListingsInserted ==
    /\ mainpc = "pure" /\ mIn.fn = "listings_inserted" /\ ~mOut.done
    /\ mOut' = [done |-> TRUE,
                val |-> listings_inserted(mIn.fp, Len(mIn.listings),
                            call_insert_listings(mIn.st,
                                IF mIn.argc = 2 THEN <<mIn.fp.site_id, mIn.listings>>
                                ELSE <<mIn.fp.site_id, mIn.fp.property_id, mIn.listings>>))]
    /\ UNCHANGED <<store, mainpc, run, permits, tasks, hist, last, observe, envs, mIn>>

ApplySanitize ==
    /\ mainpc = "pure" /\ mIn.fn = "sanitize_selector" /\ ~mOut.done
    /\ mOut' = [done |-> TRUE,
                val |-> [once |-> sanitize_selector(mIn.selector),
                         twice |-> sanitize_selector(sanitize_selector(mIn.selector))]]
    /\ UNCHANGED <<store, mainpc, run, permits, tasks, hist, last, observe, envs, mIn>>

NextPure ==
    \/ ApplySanitize
    \/ ApplyListingsInserted
    \/ ApplyGetFloorplanUrls
    \/ ApplySelect
    \/ ApplyTestCandidates
    \/ ApplyGetListings
    \/ ApplyGetSnapshots
    \/ ApplyMatchSnapshot
    \/ ApplyParseListings
    \/ ApplyParseSnapshots

SpecPure == InitPure /\ [][NextPure]_vars

\* ------------------------------------------------------------------ properties of the functions

\* C4: with no cached selector, select tests the candidates in the order the
\* extractor ranked them and returns the first whose live match count n has
\* 1 < n <= 50; a candidate with count 1, with count above 50 or whose wait
\* fails is skipped, and no candidate after the accepted one is tested.
C4_FirstInWindow ==
    (mIn.fn = "TestCandidates" /\ mOut.done) =>
        LET n == Len(mIn.candidates)
            accepted == {i \in 1..n : /\ ~IsNone(mIn.outcomes[i])
                                      /\ 1 < Val(mIn.outcomes[i])
                                      /\ Val(mIn.outcomes[i]) <= 50}
        IN IF accepted = {}
           THEN IsNone(mOut.val.chosen) /\ mOut.val.tested = n
           ELSE \E i \in accepted :
                   /\ \A j \in accepted : i <= j
                   /\ mOut.val.chosen = Some(sanitize_selector(mIn.candidates[i]))
                   /\ mOut.val.tested = i

\* Counts [1, 3, 60]: the second candidate is returned and the third is not
\* tested.
C4_Witness ==
    /\ mIn.fn = "TestCandidates" /\ mOut.done
    /\ mIn.outcomes = <<Some(1), Some(3), Some(60)>>
    /\ mIn.candidates[1] # mIn.candidates[2]
    /\ mOut.val.chosen = Some(sanitize_selector(mIn.candidates[2]))
    /\ mOut.val.tested = 2

\* C6: for every listing field and every snapshot field the merged value is
\* the regex value when the regex pass produced a non-null one, otherwise the
\* extractor's value, otherwise null, whatever the extractor answers.
C6_RegexWins ==
    /\ (mIn.fn = "get_listings" /\ mOut.done /\ IsNone(mOut.val.exc)) =>
          \A k \in DOMAIN mIn.snippets : \A f \in {"bedrooms", "bathrooms", "sqft"} :
             LET re == mIn.snippets[k].regex_listing
                 ai == ai_parse_listings(re, mIn.snippets[k].ai_listing).val
                 merged == mOut.val.val[k]
             IN (IF f \in DOMAIN merged THEN merged[f] ELSE None)
                  = IF f \in DOMAIN re /\ ~IsNone(re[f]) THEN re[f]
                    ELSE IF f \in DOMAIN ai THEN ai[f] ELSE None
    /\ (mIn.fn = "get_snapshots" /\ mOut.done /\ IsNone(mOut.val.exc)) =>
          \A k \in DOMAIN mIn.snippets : \A f \in {"price_low", "price_high", "availability"} :
             LET re == match_snapshot(mIn.snippets[k].price, mIn.snippets[k].availability).val
                 ai == ai_parse_listing_snapshots(re, mIn.snippets[k].ai_snapshot).val
                 merged == mOut.val.val[k]
             IN (IF f \in DOMAIN merged THEN merged[f] ELSE None)
                  = IF f \in DOMAIN re /\ ~IsNone(re[f]) THEN re[f]
                    ELSE IF f \in DOMAIN ai THEN ai[f] ELSE None

\* C10: every snapshot get_snapshots hands on with both price bounds non-null
\* has high >= low, whichever of the regex pass and the extractor supplied
\* each bound.
C10_RangeOrdered ==
    (mIn.fn = "get_snapshots" /\ mOut.done /\ IsNone(mOut.val.exc)) =>
        \A k \in DOMAIN mOut.val.val :
            LET s == mOut.val.val[k] IN
            (~IsNone(s.price_low) /\ ~IsNone(s.price_high)) =>
                normalize_price(Val(s.price_high)).val >= normalize_price(Val(s.price_low)).val

\* C11: match_snapshot keeps a parsed price range only if high >= low: equal
\* bounds are retained, a pair with high < low gives both bounds null, and
\* each retained bound is the integer left after stripping the currency
\* symbol and the thousands separators, written in digits alone.
C11_RangeKeptAsIntegers ==
    (mIn.fn = "match_snapshot" /\ mOut.done /\ IsNone(mOut.val.exc) /\ ~IsNone(mIn.price)) =>
        LET low == Val(mIn.price)[1]
            high == Val(mIn.price)[2]
            l == normalize_price(low).val
            out == mOut.val.val
        IN IF ~IsNone(high) /\ normalize_price(Val(high)).val < l
           THEN IsNone(out.price_low) /\ IsNone(out.price_high)
           ELSE /\ ~IsNone(out.price_low)
                /\ AllDigits(Val(out.price_low)) /\ DigitsValue(Val(out.price_low)) = l
                /\ IsNone(out.price_high) = IsNone(high)
                /\ ~IsNone(high) =>
                      /\ AllDigits(Val(out.price_high))
                      /\ DigitsValue(Val(out.price_high)) = normalize_price(Val(high)).val

\* C12: the fields requested from the extractor for a snippet are exactly
\* those the regex pass left unresolved: none of them has a non-null regex
\* value, and every field of the schema without one is requested.
C12_OnlyUnresolvedRequested ==
    (mIn.fn \in {"ai_parse_listings", "ai_parse_listing_snapshots"} /\ mOut.done) =>
        LET all == IF mIn.fn = "ai_parse_listings" THEN ListingProps ELSE SnapshotProps
        IN /\ \A f \in mOut.val.asked : f \notin DOMAIN mIn.filled \/ IsNone(mIn.filled[f])
           /\ \A f \in all : (f \notin DOMAIN mIn.filled \/ IsNone(mIn.filled[f]))
                                => f \in mOut.val.asked

\* The regex pass resolved bedrooms and sqft and left bathrooms open: the
\* request names listname and bathrooms alone.
C12_Witness ==
    /\ mIn.fn = "ai_parse_listings" /\ mOut.done
    /\ ~IsNone(mIn.filled["bedrooms"]) /\ ~IsNone(mIn.filled["sqft"])
    /\ IsNone(mIn.filled["bathrooms"])
    /\ mOut.val.asked = {"listname", "bathrooms"}

\* C16: when every candidate is rejected, select does not fail at once: if
\* the most frequent id prefix of the page occurs at least 3 times and a
\* selector on it matches between 1 and 100 elements, select resolves to a
\* selector, and only otherwise does it end without one.
C16_FallbackBeforeFailed ==
    (/\ mIn.fn = "select" /\ mOut.done
     /\ IsNone(TestCandidates(mIn.env.candidates, mIn.env.outcomes).chosen))
    => (~IsNone(mOut.val.selector)
          <=> (/\ mIn.prefix_count >= 3
               /\ 0 < mIn.prefix_matches /\ mIn.prefix_matches <= 100))

\* C20: get_floorplan_urls yields, for a site with a floorplans URL, exactly
\* one target, owned by the site (property_id null), and for any other site
\* exactly one target per property row of that site whose URL is not null
\* and no other target; every target is owned by an existing site or by one
\* property row of that site, and no two targets have the same owner scope.
C20_TargetsBySite ==
    (mIn.fn = "get_floorplan_urls" /\ mOut.done)
    => LET st == mIn.st
           fps == mOut.val
           Of(site_id) == {k \in DOMAIN fps : fps[k].site_id = site_id}
           Rows(site_id) == {q \in DOMAIN st.property :
                               /\ st.property[q].site_id = site_id
                               /\ ~IsNone(st.property[q].floorplans_url)}
       IN /\ \A site_id \in DOMAIN st.site :
                IF HasUrl(st.site[site_id])
                THEN /\ Cardinality(Of(site_id)) = 1
                     /\ \A k \in Of(site_id) :
                           /\ IsNone(fps[k].property_id)
                           /\ fps[k].url = Val(st.site[site_id].floorplans_url)
                ELSE /\ \A q \in Rows(site_id) :
                           Cardinality({k \in Of(site_id) :
                                          fps[k].property_id = Some(q)}) = 1
                     /\ \A k \in Of(site_id) :
                           /\ fps[k].property_id \in {Some(q) : q \in Rows(site_id)}
                           /\ fps[k].url
                                = Val(st.property[Val(fps[k].property_id)].floorplans_url)
          /\ \A k \in DOMAIN fps : fps[k].site_id \in DOMAIN st.site
          /\ \A j, k \in DOMAIN fps : Target(fps[j]) = Target(fps[k]) => j = k

\* One site has its own URL and a property row with a URL, the other site
\* has none and two property rows with a URL: three targets are possible
\* and get_floorplan_urls yields the site's one and the two property ones.
C20_Witness ==
    /\ mIn.fn = "get_floorplan_urls" /\ mOut.done
    /\ \E a, b \in DOMAIN mIn.st.site :
          /\ HasUrl(mIn.st.site[a]) /\ IsNone(mIn.st.site[b].floorplans_url)
          /\ \E q \in DOMAIN mIn.st.property :
                /\ mIn.st.property[q].site_id = a
                /\ ~IsNone(mIn.st.property[q].floorplans_url)
          /\ Cardinality({q \in DOMAIN mIn.st.property :
                            /\ mIn.st.property[q].site_id = b
                            /\ ~IsNone(mIn.st.property[q].floorplans_url)}) = 2
    /\ Len(mOut.val) = 3

C30_SanitizeOnlyDotBeforeCompound ==
    (mIn.fn = "sanitize_selector" /\ mOut.done)
    => LET t == Strip(mIn.selector)
           n == IF t # <<>> /\ Head(t) = "." THEN LetterRun(t, 2) ELSE 0
           compound == n >= 1 /\ n + 2 <= Len(t) /\ t[n + 2] \in {".", "#"}
           u == IF compound THEN Tail(t) ELSE t
       IN /\ mOut.val.once = [i \in 1..Len(u) |-> IF u[i] = "\"" THEN "'" ELSE u[i]]
          /\ mOut.val.twice = mOut.val.once

\* ------------------------------------------------------------------ properties of the runs

\* C1: at every point of a run, the number of browser sessions launched by
\* init_site or scrape_fp tasks and not yet closed is at most the gate size.
C1_OpenSessionsBounded ==
    Cardinality({i \in DOMAIN tasks : tasks[i].nav = "open"}) <= GateSize

\* C2: a task that fails neither ends the gather before every sibling has run
\* to its own end nor keeps a sibling from running: main() leaves a gather
\* only when each of its tasks is done, a task that ended holds no permit,
\* and while a sibling of a failed task is unfinished some unfinished task
\* can take its next step.
C2_FailureIsolated ==
    [][/\ (mainpc \in {"init", "scrape"} /\ mainpc' # mainpc)
           => \A i \in DOMAIN tasks : tasks[i].pc = "done"
       /\ \A i \in DOMAIN tasks' : tasks'[i].pc = "done" => ~tasks'[i].holds
       /\ (/\ \E j \in DOMAIN tasks' : tasks'[j].raised
           /\ \E i \in DOMAIN tasks' : tasks'[i].pc # "done")
           => \E i \in DOMAIN tasks' :
                 \/ tasks'[i].pc \in {"gated", "launched", "loaded"}
                 \/ tasks'[i].pc = "waiting" /\ permits' > 0
                 \/ /\ tasks'[i].pc = "new"
                    /\ \A k \in 1..(i - 1) : tasks'[k].pc # "new"]_vars

\* A run has ended after one target's task raised and its sibling went
\* through its whole pass.
C2_Witness ==
    /\ mainpc = "done"
    /\ \E i, j \in DOMAIN tasks :
          /\ tasks[j].raised /\ tasks[j].pc = "done"
          /\ ~tasks[i].raised /\ tasks[i].pc = "done" /\ tasks[i].nav = "closed"

\* C3: if a selector is stored for the target's owner scope, select returns
\* exactly that selector without calling the extractor, without testing a
\* candidate and without writing to the store; the select calls for a scope
\* that once returned a selector return the same one in later runs.
C3_CachedShortCircuit ==
    [][/\ \A i \in DOMAIN tasks :
            (mainpc = "scrape" /\ tasks[i].pc = "loaded" /\ tasks'[i].pc = "done") =>
                LET stored == IF IsNone(tasks[i].property_id)
                              THEN store.site[tasks[i].site_id].container_selector
                              ELSE store.property[Val(tasks[i].property_id)].container_selector
                    after == IF IsNone(tasks[i].property_id)
                             THEN store'.site[tasks[i].site_id].container_selector
                             ELSE store'.property[Val(tasks[i].property_id)].container_selector
                IN (~IsNone(stored) /\ Val(stored) # <<>>) =>
                       /\ last'.selector = stored
                       /\ last'.select_events = <<"db.get_selector">>
                       /\ ~last'.select_wrote
                       /\ after = stored
       /\ \A h1, h2 \in hist' :
            (/\ h1.site_id = h2.site_id /\ h1.property_id = h2.property_id
             /\ h1.run <= h2.run /\ ~IsNone(h1.selector))
            => h2.selector = h1.selector]_vars

\* In a second run, select has answered from the cache what it answered for
\* the same scope in the first.
C3_Witness ==
    /\ last.op = "scrape_fp" /\ last.outcome = "cached"
    /\ last.select_events = <<"db.get_selector">>
    /\ run = 2
    /\ \E h \in hist : /\ h.run = 1
                       /\ h.site_id = last.site_id /\ h.property_id = last.property_id
                       /\ h.selector = last.selector

\* C5: when select ends in FAILED it returns null and the task writes nothing
\* to the store; the scope stays uncached, so the next run enters discovery
\* for it again.
C5_FailedWritesNothing ==
    [][/\ \A i \in DOMAIN tasks :
            (/\ mainpc = "scrape" /\ tasks[i].pc = "loaded" /\ tasks'[i].pc = "done"
             /\ IsNone(last'.selector))
            => /\ store' = store
               /\ IsNone(IF IsNone(tasks[i].property_id)
                         THEN store'.site[tasks[i].site_id].container_selector
                         ELSE store'.property[Val(tasks[i].property_id)].container_selector)
       /\ \A h1, h2 \in hist' :
            (/\ h1.site_id = h2.site_id /\ h1.property_id = h2.property_id
             /\ h2.run = h1.run + 1 /\ IsNone(h1.selector))
            => h2.outcome # "cached"]_vars

\* A scope whose discovery failed in the first run has gone through discovery
\* again in the second.
C5_Witness ==
    /\ last.op = "scrape_fp" /\ run = 2
    /\ last.select_events # <<"db.get_selector">>
    /\ \E h \in hist : /\ h.run = 1 /\ IsNone(h.selector)
                       /\ h.site_id = last.site_id /\ h.property_id = last.property_id

\* C7: in a pass over a page with listing containers where the persisted
\* listing count is non-absent and equals the live count, scrape_fp extracts
\* no listings, inserts none and updates no count, but still extracts
\* snapshots and attempts a snapshot insert.
C7_EqualCountSnapshotsOnly ==
    (/\ last.op = "scrape_fp"
     /\ ~IsNone(last.count) /\ ~IsNone(last.prev_count)
     /\ Val(last.count) > 0
     /\ Val(last.prev_count) = Val(last.count))
    => /\ \A k \in DOMAIN last.events :
             last.events[k] \notin {"get_listings", "call insert_listings",
                                    "db.insert_listings", "db.update_listing_count"}
       /\ \E k \in DOMAIN last.events : last.events[k] = "get_snapshots"
       /\ \E k \in DOMAIN last.events : last.events[k] = "call insert_listing_snapshots"

\* C8: in a pass where the persisted count is absent or differs from the live
\* count, scrape_fp extracts the listings and, the extraction done, inserts
\* them, sets the persisted count to the live count and goes on to the
\* snapshots; after the pass the persisted count equals the live count.
C8_ChangedCountInserts ==
    (/\ last.op = "scrape_fp"
     /\ ~IsNone(last.count) /\ Val(last.count) > 0
     /\ (IsNone(last.prev_count) \/ Val(last.prev_count) # Val(last.count)))
    => /\ \E k \in DOMAIN last.events : last.events[k] = "get_listings"
       /\ (\E k \in DOMAIN last.events : last.events[k] = "call insert_listings")
          => /\ \E k \in DOMAIN last.events : last.events[k] = "db.insert_listings"
             /\ \E k \in DOMAIN last.events : last.events[k] = "db.update_listing_count"
             /\ \E k \in DOMAIN last.events : last.events[k] = "get_snapshots"
             /\ (IF IsNone(last.property_id)
                 THEN store.site[last.site_id].listing_count
                 ELSE store.property[Val(last.property_id)].listing_count) = last.count

\* C13: an extractor failure during field extraction is not fatal to the
\* pass: when get_listings or get_snapshots is left by the extractor's
\* exception, the pass still goes on to hand its listings and its snapshots
\* to the store.
C13_ExtractorFailureNotFatal ==
    (/\ last.op = "scrape_fp"
     /\ \E k \in DOMAIN last.events :
           last.events[k] \in {"get_listings raised", "get_snapshots raised"})
    => /\ \E k \in DOMAIN last.events : last.events[k] = "call insert_listing_snapshots"
       /\ (\E k \in DOMAIN last.events : last.events[k] = "get_listings")
            => \E k \in DOMAIN last.events : last.events[k] = "call insert_listings"

C17_ResourcesClosed ==
    \A i \in DOMAIN tasks :
        tasks[i].pc = "done" => tasks[i].nav # "open" /\ tasks[i].conn # "open"

\* C18: init_all_sites schedules the classification of exactly the sites
\* that have no stored floorplans URL and no Property row, each once; a site
\* with a stored URL or a Property row is under classification in no run.
C18_OnlyUnvisitedClassified ==
    [][/\ (mainpc = "start" /\ mainpc' = "init") =>
            /\ \A s \in DOMAIN store.site :
                  (/\ IsNone(store.site[s].floorplans_url)
                   /\ \A p \in DOMAIN store.property : store.property[p].site_id # s)
                  <=> \E i \in DOMAIN tasks' : tasks'[i].site_id = s
            /\ \A i, j \in DOMAIN tasks' : tasks'[i].site_id = tasks'[j].site_id => i = j
            /\ \A i \in DOMAIN tasks' : tasks'[i].kind = "init"
       /\ \A i \in DOMAIN tasks' :
            (tasks'[i].kind = "init" /\ tasks'[i].pc # "done") =>
                /\ IsNone(store'.site[tasks'[i].site_id].floorplans_url)
                /\ \A p \in DOMAIN store'.property :
                      store'.property[p].site_id # tasks'[i].site_id]_vars

\* In a second run over a store that holds sites with a URL, a site with a
\* Property row and one site with neither, that one site alone is scheduled.
C18_Witness ==
    /\ run = 2 /\ mainpc = "init"
    /\ Len(tasks) = 1 /\ tasks[1].kind = "init"
    /\ \E s \in DOMAIN store.site : ~IsNone(store.site[s].floorplans_url)
    /\ \E s \in DOMAIN store.site :
          /\ IsNone(store.site[s].floorplans_url)
          /\ \E p \in DOMAIN store.property : store.property[p].site_id = s

\* C19: in init_site the site data handed to the store carries the URL of
\* the regex link match whenever there is one, also when the extractor
\* answered a URL of its own; the extractor's URL is carried only when the
\* regex match found none; and the site row holds no other URL than that of
\* the site data.
C19_RegexUrlWins ==
    (/\ last.op = "init_site"
     /\ \E k \in DOMAIN last.events : last.events[k] = "call insert_site")
    => LET url == IF "floorplans_url" \in DOMAIN last.site_data
                  THEN last.site_data["floorplans_url"] ELSE None
       IN /\ url = IF ~IsNone(last.link) THEN last.link
                    ELSE IF "floorplans_url" \in DOMAIN last.answer
                    THEN last.answer["floorplans_url"] ELSE None
          /\ store.site[last.site_id].floorplans_url \in {None, url}

\* The regex match and the extractor both produced a URL, and the site data
\* handed to the store carries the regex one.
C19_Witness ==
    /\ last.op = "init_site"
    /\ \E k \in DOMAIN last.events : last.events[k] = "call insert_site"
    /\ ~IsNone(last.link)
    /\ "floorplans_url" \in DOMAIN last.answer
    /\ ~IsNone(last.answer["floorplans_url"])
    /\ last.answer["floorplans_url"] # last.link
    /\ last.site_data["floorplans_url"] = last.link

\* The Listing rows of an owner scope.
ScopeListings(st, site_id, property_id) ==
    {k \in DOMAIN st.listing : /\ st.listing[k].site_id = site_id
                               /\ st.listing[k].property_id = property_id}

\* C21: a target whose earlier pass ended after its selector was written and
\* before its listings and count were, is brought up to date by the pass of
\* the next run over the page: when extraction succeeds, the scope then has
\* exactly one Listing row per extracted listname and its persisted count
\* is the live count.
C21_RerunCompletes ==
    (/\ last.op = "scrape_fp" /\ ~last.raised
     /\ last.outcome = "cached"
     /\ \E h \in hist : /\ h.run < run /\ h.outcome = "discovered"
                        /\ h.site_id = last.site_id /\ h.property_id = last.property_id
     /\ ~IsNone(last.count) /\ Val(last.count) > 0
     /\ changed(last.prev_count, Val(last.count))
     /\ ~\E k \in DOMAIN last.events : last.events[k] = "get_listings raised")
    => /\ get_listing_count(store, last.site_id, last.property_id) = last.count
       /\ \A n \in last.listed :
             Cardinality({k \in ScopeListings(store, last.site_id, last.property_id) :
                            store.listing[k].listname = n}) = 1

\* The store calls of a pass and the place where one of them raised: the
\* handler follows the call at once.
StoreCalls ==
    {"call insert_listings", "db.insert_listings",
     "call insert_listing_snapshots", "db.insert_listing_snapshots"}

StoreFailedAt(events) ==
    {k \in DOMAIN events : /\ events[k] \in StoreCalls
                           /\ k < Len(events) /\ events[k + 1] = "except"}

\* C22: when a store call of a target's pass raises, the pass does nothing
\* more than close its session and its connection: a failed listing insert
\* is followed by no count update and no snapshot insert, the scope's
\* persisted count and the snapshot table stay as they were, the count is
\* only ever updated after the listing insert went through, and the tasks
\* of the other targets and the run itself are left as they were.
C22_StoreFailureSkipsRest ==
    [][(last'.op = "scrape_fp")
       => LET ev == last'.events
              fp == Target(last')
          IN /\ \A k \in DOMAIN ev :
                   ev[k] = "db.update_listing_count"
                     => k > 1 /\ ev[k - 1] = "db.insert_listings"
             /\ \A k \in StoreFailedAt(ev) :
                   /\ \A j \in (k + 2)..Len(ev) : ev[j] \in {"nav.close", "db.close"}
                   /\ get_listing_count(store', fp.site_id, fp.property_id)
                        = get_listing_count(store, fp.site_id, fp.property_id)
                   /\ store'.snapshot = store.snapshot
                   /\ mainpc' = mainpc
                   /\ \A j \in DOMAIN tasks :
                         Target(tasks[j]) # fp => tasks'[j] = tasks[j]]_vars

\* A listing insert of one target's pass has raised while the task of
\* another target of the run has still to make its pass.
C22_Witness ==
    /\ last.op = "scrape_fp"
    /\ StoreFailedAt(last.events) # {}
    /\ \E k \in DOMAIN last.events : last.events[k] = "call insert_listings"
    /\ \E j \in DOMAIN tasks :
          /\ tasks[j].kind = "fp" /\ tasks[j].pc # "done"
          /\ Target(tasks[j]) # Target(last)

\* C23: a selector that select resolves by discovery is a sanitized
\* candidate; select's last act before returning it is to save it, and it is
\* then the selector stored in the row of the target's owner scope (the
\* Property row when property_id is set, else the Site row); a pass of a
\* later run for that scope gets that same selector from the store.
C23_DiscoveredSelectorPersisted ==
    /\ (last.op = "scrape_fp" /\ last.outcome = "discovered")
       => /\ last.selector \in UNION {{Some(sanitize_selector(c[k])) : k \in DOMAIN c} :
                                          c \in RunCandidates}
          /\ last.select_events[Len(last.select_events)] = "db.save_selector"
          /\ IF IsNone(last.property_id)
             THEN store.site[last.site_id].container_selector = last.selector
             ELSE store.property[Val(last.property_id)].container_selector = last.selector
          /\ get_selector(store, last.site_id, last.property_id) = last.selector
    /\ \A h1, h2 \in hist :
          (/\ h1.outcome = "discovered" /\ h1.run < h2.run
           /\ h1.site_id = h2.site_id /\ h1.property_id = h2.property_id)
          => h2.outcome = "cached" /\ h2.selector = h1.selector

\* A Property scope's selector was discovered in one run and read back by
\* the pass of the next.
C23_Witness ==
    /\ last.op = "scrape_fp" /\ last.outcome = "cached"
    /\ ~IsNone(last.property_id)
    /\ \E h \in hist :
          /\ h.outcome = "discovered" /\ h.run < run
          /\ h.site_id = last.site_id /\ h.property_id = last.property_id
          /\ h.selector = last.selector

\* The owner scopes that have a row in the store.
Scopes(st) ==
    {[site_id |-> i, property_id |-> None] : i \in DOMAIN st.site}
    \cup {[site_id |-> st.property[q].site_id, property_id |-> Some(q)] :
            q \in DOMAIN st.property}

\* C25: in every step of every run, a scope's stored selector changes only
\* when the step is a pass of that scope whose select discovered a selector
\* while none was stored, and it becomes the discovered one; a scope's
\* stored count changes only in a pass of that scope that found the live
\* count different from the persisted one, and it becomes the live count; a
\* non-null selector is never modified or cleared; and a step of init_site
\* changes no selector and no count.
C25_SelectorAndCountFrame ==
    [][\A sc \in Scopes(store) :
          LET sel == get_selector(store, sc.site_id, sc.property_id)
              sel2 == get_selector(store', sc.site_id, sc.property_id)
              cnt == get_listing_count(store, sc.site_id, sc.property_id)
              cnt2 == get_listing_count(store', sc.site_id, sc.property_id)
          IN /\ sc \in Scopes(store')
             /\ sel2 # sel
                  => /\ last'.op = "scrape_fp" /\ Target(last') = sc
                     /\ last'.outcome = "discovered"
                     /\ IsNone(sel) /\ sel2 = last'.selector /\ ~IsNone(sel2)
             /\ cnt2 # cnt
                  => /\ last'.op = "scrape_fp" /\ Target(last') = sc
                     /\ ~IsNone(last'.count)
                     /\ changed(cnt, Val(last'.count))
                     /\ cnt2 = last'.count
             /\ ~IsNone(sel) => sel2 = sel
             /\ last'.op = "init_site" => sel2 = sel /\ cnt2 = cnt]_vars

\* A pass has discovered a selector for a scope that had none, and the scope
\* now stores it; the other scope of the site still has none.
C25_Witness ==
    /\ last.op = "scrape_fp" /\ last.outcome = "discovered"
    /\ get_selector(store, last.site_id, last.property_id) = last.selector
    /\ \E sc \in Scopes(store) :
          /\ sc # Target(last)
          /\ IsNone(get_selector(store, sc.site_id, sc.property_id))

\* C27: the tasks of scrape_fp exist only in the scrape phase of a run; the
\* step that creates them is taken when every init_site task of the run has
\* ended, by returning or by raising, and the targets they are made from
\* are those the store holds at that step.
C27_ClassifyBeforeScrape ==
    [][/\ \A i \in DOMAIN tasks' :
             /\ tasks'[i].kind = "fp" => mainpc' \in {"scrape", "done"}
             /\ tasks'[i].kind = "init" => mainpc' = "init"
       /\ (mainpc = "init" /\ mainpc' # "init")
            => /\ \A i \in DOMAIN tasks : tasks[i].kind = "init" /\ tasks[i].pc = "done"
               /\ mainpc' = "scrape"
               /\ tasks' = fp_tasks(get_floorplan_urls(store))
               /\ \A i \in DOMAIN tasks' : tasks'[i].pc = "new"]_vars

\* A scrape_fp task has started in a run that had an init_site task: the
\* store has a site that is still unvisited.
C27_Witness ==
    /\ mainpc = "scrape"
    /\ \E i \in DOMAIN tasks : tasks[i].kind = "fp" /\ tasks[i].pc # "new"
    /\ \E site_id \in DOMAIN store.site : ~previously_visited(store, site_id)

\* C28: a step of init_site whose try block raised (page text, link or
\* extractor) leaves the store as it was and the site unvisited; the site
\* has one init_site task in the run, which has then ended; and the next
\* run's init_all_sites makes an init_site task for every site whose
\* classification failed in an earlier run.
C28_FailedClassificationRetriedNextRun ==
    [][/\ (last'.op = "init_site" /\ last'.events[1] = "except")
            => /\ store' = store
               /\ ~previously_visited(store', last'.site_id)
               /\ Cardinality({i \in DOMAIN tasks' :
                                  tasks'[i].site_id = last'.site_id}) = 1
               /\ \A i \in DOMAIN tasks' :
                     tasks'[i].site_id = last'.site_id => tasks'[i].pc = "done"
       /\ (mainpc = "start" /\ mainpc' = "init")
            => \A h \in hist :
                  (h.outcome = "init failed" /\ h.run < run)
                    => \E i \in DOMAIN tasks' :
                          /\ tasks'[i].kind = "init" /\ tasks'[i].site_id = h.site_id
                          /\ tasks'[i].pc = "new"]_vars

\* The classification of a site failed in the first run and the second run
\* has made an init_site task for it.
C28_Witness ==
    /\ mainpc = "init" /\ run > 1
    /\ \E h \in hist :
          /\ h.outcome = "init failed" /\ h.run < run
          /\ \E i \in DOMAIN tasks : tasks[i].kind = "init" /\ tasks[i].site_id = h.site_id

\* C29: after init_site has classified a site whose answer lists
\* properties and whose page has a floorplans link, the entries titled by a
\* bedroom-count phrase, like a unit type, are not persisted; when two or more other entries remain the
\* site has one Property row for each of them, and when fewer remain the
\* site has a floorplans URL and no Property row.
C29_UnitTypesDropped ==
    (/\ last.op = "init_site"
     /\ "properties" \in DOMAIN last.answer
     /\ ~IsNone(last.link))
    => LET UnitTypeTitles == {"2 Bedroom"}
           items == last.answer["properties"].items
           genuine == {k \in DOMAIN items : items[k].title \notin UnitTypeTitles}
           rows == {q \in DOMAIN store.property : store.property[q].site_id = last.site_id}
       IN /\ \A q \in rows : store.property[q].title \notin UnitTypeTitles
          /\ IF Cardinality(genuine) >= 2
             THEN \A k \in genuine :
                     Cardinality({q \in rows : store.property[q].title = items[k].title}) = 1
             ELSE /\ rows = {}
                  /\ ~IsNone(store.site[last.site_id].floorplans_url)

\* C31: at most GateSize tasks are inside the gated section at once; the
\* free permits are GateSize less the tasks inside; a task that has ended,
\* by returning or by raising, holds no permit; and when every task of a
\* phase has ended all GateSize permits are free.
C31_PermitsBoundedAndReturned ==
    /\ Cardinality({i \in DOMAIN tasks : tasks[i].holds}) <= GateSize
    /\ permits = GateSize - Cardinality({i \in DOMAIN tasks : tasks[i].holds})
    /\ \A i \in DOMAIN tasks :
          /\ tasks[i].pc = "done" => ~tasks[i].holds
          /\ tasks[i].pc \in {"new", "waiting"} => ~tasks[i].holds
    /\ gather_done(tasks) => permits = GateSize

\* The gate is full while a task waits at it.
C31_Witness ==
    /\ permits = 0
    /\ Cardinality({i \in DOMAIN tasks : tasks[i].holds}) = GateSize
    /\ \E i \in DOMAIN tasks : tasks[i].pc = "waiting"

\* C32: with every awaited call returning or raising, whenever tasks wait
\* at the gate a time comes when every task of the phase has ended, so
\* each of them was admitted; and every run ends: main returns with each
\* of its tasks ended, by returning or by raising.
C32_EveryTaskAdmittedAndRunEnds ==
    /\ (\E i \in DOMAIN tasks : tasks[i].pc = "waiting")
         ~> (\A i \in DOMAIN tasks : tasks[i].pc = "done")
    /\ \A r \in 1..MaxRuns :
          (run = r) ~> (run = r /\ mainpc = "done" /\ gather_done(tasks))

\* More tasks than the gate has permits: one waits at the full gate while
\* another has yet to reach it.
C32_Witness ==
    /\ mainpc = "scrape"
    /\ permits = 0
    /\ \E i, j \in DOMAIN tasks : tasks[i].pc = "waiting" /\ tasks[j].pc = "gated"
    /\ Len(tasks) > GateSize

\* C33: within one task no browser session and no store connection is closed
\* twice, and nothing is asked of a page or of the store after its session or
\* its connection was closed; when select returns None, scrape_fp ends with
\* the session closed exactly once and the connection closed exactly once.
C33_ClosedExactlyOnce ==
    last.op \in {"scrape_fp", "init_site"} =>
        LET ev == last.events
            navAt == {k \in DOMAIN ev : ev[k] = "nav.close"}
            dbAt == {k \in DOMAIN ev : ev[k] = "db.close"}
        IN /\ Cardinality(navAt) <= 1
           /\ Cardinality(dbAt) <= 1
           /\ \A k \in navAt : \A j \in (k + 1)..Len(ev) :
                 ev[j] \notin {"nav.close", "count", "test", "ai.init_container"}
           /\ \A k \in dbAt : \A j \in (k + 1)..Len(ev) :
                 ev[j] \notin {"db.close", "db.get_selector", "db.save_selector",
                               "db.get_listing_count", "db.update_listing_count",
                               "db.insert_listings", "db.insert_listing_snapshots",
                               "db.insert_site", "call insert_listings",
                               "call insert_listing_snapshots", "call insert_site"}
           /\ (last.op = "scrape_fp" /\ IsNone(last.selector))
                 => Cardinality(navAt) = 1 /\ Cardinality(dbAt) = 1

MaxSnapshotRows == 2

\* The owner scopes of one site: the site itself and one property of it.
DbScopes == {[site_id |-> 1, property_id |-> None], [site_id |-> 1, property_id |-> Some(1)]}

\* Listing objects as the store layer reads them, in batches of one or two.
DbListings ==
    {PyObj([listname |-> o.n, bedrooms |-> Some(o.b), bathrooms |-> None, sqft |-> None,
            shared_room |-> None, amenities |-> None]) :
        o \in {[n |-> "A", b |-> "1"], [n |-> "A", b |-> "2"], [n |-> "B", b |-> "1"]}}

DbListingBatches == SeqsOfLen(DbListings, 1) \cup SeqsOfLen(DbListings, 2)

DbSnapshots ==
    {PyObj([listname |-> n, availability |-> None, price |-> <<"9", "0", "0">>,
            pre_deal_price |-> None, deals |-> None]) : n \in {"A", "B"}}

InitDB ==
    /\ store = EmptyStore
    /\ mainpc = "db"
    /\ run = 1
    /\ permits = GateSize
    /\ tasks = <<>>
    /\ hist = {}
    /\ last = Nothing
    /\ observe = TRUE
    /\ envs = "pass"
    /\ mIn = NoInput
    /\ mOut = NoOutput

\* db.insert_listings(site_id, property_id, listings).  hist keeps the first
\* key that was inserted while a row of it existed.
DbInsertListings ==
    /\ mainpc = "db"
    /\ \E scope \in DbScopes, batch \in DbListingBatches :
         LET again == {k \in DOMAIN batch :
                          ~IsNone(lookup_listing_id(store, scope.site_id, scope.property_id,
                                                    batch[k].d.listname))}
         IN /\ store' = insert_listings(store, scope.site_id, scope.property_id, batch).store
            /\ hist' = IF hist = {} /\ again # {}
                       THEN {[site_id |-> scope.site_id, property_id |-> scope.property_id,
                              listname |-> batch[CHOOSE k \in again : TRUE].d.listname]}
                       ELSE hist
            /\ last' = [op |-> "insert_listings"]
    /\ UNCHANGED <<mainpc, run, permits, tasks, observe, envs, mIn, mOut>>

DbSnapshotBatches == SeqsOfLen(DbSnapshots, 1) \cup SeqsOfLen(DbSnapshots, 2)

\* db.insert_listing_snapshots(site_id, property_id, snaps) with one or two
\* snapshots, while the table is short.
DbInsertSnapshots ==
    /\ mainpc = "db"
    /\ Len(store.snapshot) < MaxSnapshotRows
    /\ \E scope \in DbScopes, snaps \in DbSnapshotBatches :
         LET r == insert_listing_snapshots(store, scope.site_id, scope.property_id, snaps)
         IN /\ store' = r.store
            /\ last' = [op |-> "insert_listing_snapshots", site_id |-> scope.site_id,
                        property_id |-> scope.property_id,
                        listnames |-> [k \in DOMAIN snaps |-> snaps[k].d.listname],
                        exc |-> r.exc]
    /\ UNCHANGED <<mainpc, run, permits, tasks, hist, observe, envs, mIn, mOut>>

NextDB == DbInsertListings \/ DbInsertSnapshots

SpecDB == InitDB /\ [][NextDB]_vars

\* C9: after any number of insert_listings calls at most one Listing row
\* exists per (owner scope, listname): inserting an existing key again leaves
\* the rows as they are, and a later snapshot for that listname resolves to
\* that one row.
C9_OneRowPerKey ==
    [][/\ \A i, j \in DOMAIN store'.listing :
            (/\ store'.listing[i].site_id = store'.listing[j].site_id
             /\ store'.listing[i].property_id = store'.listing[j].property_id
             /\ store'.listing[i].listname = store'.listing[j].listname) => i = j
       /\ \A i \in DOMAIN store.listing :
            i \in DOMAIN store'.listing /\ store'.listing[i] = store.listing[i]
       /\ last'.op = "insert_listing_snapshots" =>
            LET rows == {i \in DOMAIN store.listing :
                            /\ store.listing[i].site_id = last'.site_id
                            /\ store.listing[i].property_id = last'.property_id
                            /\ store.listing[i].listname = last'.listnames[1]}
            IN IF rows = {} THEN TRUE
               ELSE /\ Len(store'.snapshot) > Len(store.snapshot)
                    /\ store'.snapshot[Len(store.snapshot) + 1].listing_id \in rows
                    /\ Cardinality(rows) = 1]_vars

\* A snapshot has been stored for a key that had been inserted twice, and it
\* references the one row of that key.
C9_Witness ==
    /\ last.op = "insert_listing_snapshots"
    /\ Len(last.listnames) = 1
    /\ [site_id |-> last.site_id, property_id |-> last.property_id,
        listname |-> last.listnames[1]] \in hist
    /\ store.snapshot # <<>>
    /\ LET row == store.listing[store.snapshot[Len(store.snapshot)].listing_id]
       IN /\ row.site_id = last.site_id /\ row.property_id = last.property_id
          /\ row.listname = last.listnames[1]

\* C15: insert_listing_snapshots stores a snapshot only if its listname
\* resolves to a Listing row of the same owner scope: the snapshots of
\* unknown listings are dropped without an error, the others of the batch are
\* stored in order behind the rows already there, and every stored snapshot
\* references an existing Listing row.
C15_UnknownSnapshotsDropped ==
    [][last'.op = "insert_listing_snapshots" =>
         LET names == last'.listnames
             rowsOf(k) == {i \in DOMAIN store.listing :
                             /\ store.listing[i].site_id = last'.site_id
                             /\ store.listing[i].property_id = last'.property_id
                             /\ store.listing[i].listname = names[k]}
             kept == {k \in DOMAIN names : rowsOf(k) # {}}
             old == Len(store.snapshot)
         IN /\ IsNone(last'.exc)
            /\ store'.listing = store.listing
            /\ Len(store'.snapshot) = old + Cardinality(kept)
            /\ \A p \in 1..old : store'.snapshot[p] = store.snapshot[p]
            /\ \A k \in kept :
                  store'.snapshot[old + Cardinality({j \in kept : j <= k})].listing_id
                      \in rowsOf(k)
            /\ \A p \in DOMAIN store'.snapshot :
                  store'.snapshot[p].listing_id \in DOMAIN store'.listing]_vars

\* A batch of two whose first listname is unknown in the scope and whose
\* second is known: one snapshot was stored, for the second.
C15_Witness ==
    /\ last.op = "insert_listing_snapshots"
    /\ Len(last.listnames) = 2
    /\ IsNone(last.exc)
    /\ IsNone(lookup_listing_id(store, last.site_id, last.property_id, last.listnames[1]))
    /\ ~IsNone(lookup_listing_id(store, last.site_id, last.property_id, last.listnames[2]))
    /\ Len(store.snapshot) = 1
    /\ store.listing[store.snapshot[1].listing_id].listname = last.listnames[2]

====
